---- MODULE Spec2Model ----
(***************************************************************************)
(* Model of the LifeQuest backend: the todo ("loan task") lifecycle of     *)
(* routes/todos.py and utils/scheduler.py, the leveling function of        *)
(* core/leveling.py, the habit and daily routes of routes/tasks.py and     *)
(* routes/habits.py, the shop purchase of routes/shop.py and the daily     *)
(* sweep of core/scheduler.py.                                             *)
(*                                                                         *)
(* The requests are those of one user.  Gold is counted in whole gold      *)
(* (every amount modelled is a whole number: the todo rewards 10, 20, 40,  *)
(* the renewal fees 1, 2, 4, the habit and daily rewards).  Time is a      *)
(* small integer clock; None stands for a missing deadline, handle or      *)
(* date.                                                                   *)
(***************************************************************************)
EXTENDS Integers, Sequences, FiniteSets, TLC

\* ---------------------------------------------------------------- bounds
MaxTime == 3
MaxTodos == 1
MaxMsgs == 2
MaxRequests == 4
MaxProcs == 2
MaxConcRequests == 4
MaxLevelInput == 2
MaxCalls == 2
MaxUsers == 2
MaxTasks == 2
MaxDay == 3
MaxErrors == 1
MaxHabits == 1
MaxAllRequests == 3
MaxTriggers == 9
MaxTrigRequests == 3
MaxRaceRequests == 2
MaxFairTasks == 1

\* ------------------------------------------------------- program constants
None == -100
ErrorHandle == -1
TODO_REWARD_GOLD == 10
TODO_XP_VALUE == 20
DAILY_REWARD_GOLD == 10
DAILY_XP_VALUE == 20
HP_PENALTY_EASY == 5
HP_PENALTY_MEDIUM == 10
HP_PENALTY_HARD == 20
LEVEL_XP_THRESHOLDS == <<100, 300, 600, 1000, 1500, 2100, 2800, 3600, 4500, 5500>>

Difficulties == {"hard"}
InitGolds == {30, 60}
TodoIds == 1..MaxTodos
Times == 1..MaxTime

Max(a, b) == IF a >= b THEN a ELSE b

TODO_DIFFICULTY_MULTIPLIERS(difficulty) ==
    CASE difficulty = "easy" -> 1
      [] difficulty = "medium" -> 2
      [] difficulty = "hard" -> 4
      [] OTHER -> 1

\* ----------------------------------------------------------- core/leveling.py
\* Mutant: no level requires anything.
RequiredXp_Zero(level) == 0

\* The requirement of a level: index level-1 of the thresholds, the last
\* entry beyond the configured range.
RequiredXp(level) ==
    IF level - 1 < Len(LEVEL_XP_THRESHOLDS)
    THEN LEVEL_XP_THRESHOLDS[level]
    ELSE LEVEL_XP_THRESHOLDS[Len(LEVEL_XP_THRESHOLDS)]

\* Mutant: at most one level is gained.
LevelUp_Once(new_level, total_xp) ==
    IF total_xp >= RequiredXp(new_level)
    THEN <<new_level + 1, total_xp - RequiredXp(new_level), RequiredXp(new_level + 1)>>
    ELSE <<new_level, total_xp, RequiredXp(new_level)>>

\* The level-up loop (while True: ... break) and the final 3-tuple.
RECURSIVE LevelUp(_, _)
LevelUp(new_level, total_xp) ==
    IF total_xp >= RequiredXp(new_level)
    THEN LevelUp(new_level + 1, total_xp - RequiredXp(new_level))
    ELSE <<new_level, total_xp, RequiredXp(new_level)>>

\* Mutant: at most one level is lost.
DeLevel_Once(new_level, total_xp) ==
    IF total_xp < 0
    THEN IF new_level <= 1
         THEN <<1, Max(0, total_xp)>>
         ELSE LevelUp(new_level - 1, total_xp + RequiredXp(new_level - 1))
    ELSE LevelUp(new_level, total_xp)

\* The de-level loop (while total_xp < 0); at level 1 it returns the 2-tuple
\* (1, max(0, total_xp)) of the source.
RECURSIVE DeLevel(_, _)
DeLevel(new_level, total_xp) ==
    IF total_xp < 0
    THEN IF new_level <= 1
         THEN <<1, Max(0, total_xp)>>
         ELSE DeLevel(new_level - 1, total_xp + RequiredXp(new_level - 1))
    ELSE LevelUp(new_level, total_xp)

\* Mutant: a negative total is raised to 0 at whatever level.
calculate_new_level_and_xp_Floored(current_level, current_xp, xp_gain) ==
    LevelUp(current_level, Max(0, current_xp + xp_gain))

\* Mutant: the de-level loop is skipped.
calculate_new_level_and_xp_NoDeLevel(current_level, current_xp, xp_gain) ==
    LevelUp(current_level, current_xp + xp_gain)

calculate_new_level_and_xp(current_level, current_xp, xp_gain) ==
    DeLevel(current_level, current_xp + xp_gain)

\* ------------------------------------------------------------------ state
VARIABLES
    now,            \* get_current_time()
    stats,          \* the user's stats document: gold, xp, level, max_xp
    todos,          \* db.todos: todo id -> document
    nextTodo,       \* the id the next insert_one returns
    qstash,         \* messages pending at the external scheduler
    activity_logs,  \* db.activity_logs, in insertion order
    requests,       \* requests and callbacks handled so far
    lastOp,         \* the handler that ran last, with its todo id and deadline arguments
    penalized,      \* per todo: overdue penalties written to gold since it last became active
    procs,          \* handlers in flight (interleaved specification only)
    applied,        \* the last call of calculate_new_level_and_xp and what its caller made of it
    users,          \* db.users as the sweep reads it: user id -> hp, gold, last_cron_check
    tasks,          \* db.tasks (habits and dailies), in insertion order
    lastRun,        \* per user: how the last sweep of the day left the user, if nothing happened since
    errors,         \* exceptions the sweep has caught so far
    ledger,         \* per user: penalties of the streaks the sweeps reset, less the health they took
    habits          \* db.habits (the habits of the trigger route), in insertion order

vars == <<now, stats, todos, nextTodo, qstash, activity_logs, requests, lastOp, penalized, procs,
          applied, users, tasks, lastRun, errors, ledger, habits>>

\* What the todo routes never touch.
otherVars == <<applied, users, tasks, lastRun, errors, ledger, habits>>

UserIds == 1..MaxUsers
NoUsers == [u \in UserIds |-> [hp |-> 100, gold |-> 0, last_cron_check |-> None, purchases |-> 0]]
NoRun == [u \in UserIds |-> "none"]
NoLedger == [u \in UserIds |-> [unpaid |-> 0, floored |-> FALSE]]

NoCall == [caller |-> "none", level |-> 0, xp |-> 0, xp_gain |-> 0, result |-> <<>>, raised |-> FALSE]

Idle == [pc |-> "idle"]
ProcIds == 1..MaxProcs

Init ==
    /\ now = 1
    /\ stats \in {[gold |-> g, xp |-> 0, level |-> 1, max_xp |-> 100] : g \in InitGolds}
    /\ todos = <<>>
    /\ nextTodo = 1
    /\ qstash = {}
    /\ activity_logs = <<>>
    /\ requests = 0
    /\ lastOp = <<"init", None, None>>
    /\ penalized = [t \in TodoIds |-> 0]
    /\ procs = [p \in ProcIds |-> Idle]
    /\ applied = NoCall
    /\ users = NoUsers
    /\ tasks = <<>>
    /\ lastRun = NoRun
    /\ errors = 0
    /\ ledger = NoLedger
    /\ habits = <<>>

\* ------------------------------------------------------- utils/scheduler.py
\* Message ids are opaque: the next publish returns an id that no pending
\* message and no todo carries.
UsedMsgIds ==
    {m.id : m \in qstash} \cup {todos[t].qstash_message_id : t \in DOMAIN todos}

FreeMsgIds == (1..MaxMsgs) \ UsedMsgIds

NextMsgId == CHOOSE i \in FreeMsgIds : \A j \in FreeMsgIds : i <= j

\* Publishing can succeed only while message ids are left; it can always fail.
PublishOutcomes == IF FreeMsgIds # {} THEN {TRUE, FALSE} ELSE {FALSE}

\* Mutant: a failed registration returns no handle at all.
schedule_expiry_check_NoSentinel(published) ==
    IF published THEN NextMsgId ELSE None

\* schedule_expiry_check: the message id of the published message, or the
\* "error-<timestamp>" sentinel when publishing raised.
schedule_expiry_check(published) ==
    IF published THEN NextMsgId ELSE ErrorHandle

\* The scheduler's pending messages after schedule_expiry_check.
Published(q, published, todo_id, deadline) ==
    IF published
    THEN q \cup {[id |-> NextMsgId, todo_id |-> todo_id, not_before |-> deadline,
                  cancel_requested |-> FALSE]}
    ELSE q

\* cancel_previous_schedule: "skipped" for an empty or sentinel handle,
\* otherwise "success" (the message is gone) or "failed" (cancel raised; the
\* message stays pending, remembered as one whose cancellation was requested).
Skipped(message_id) == message_id = None \/ message_id = ErrorHandle

CancelOutcomes(message_id) == IF Skipped(message_id) THEN {TRUE} ELSE {TRUE, FALSE}

cancel_previous_schedule(q, message_id, success) ==
    IF Skipped(message_id) THEN q
    ELSE IF success THEN {m \in q : m.id # message_id}
    ELSE {IF m.id = message_id THEN [m EXCEPT !.cancel_requested = TRUE] ELSE m : m \in q}

\* --------------------------------------------------------- routes/todos.py
PotentialReward(difficulty) ==
    TODO_REWARD_GOLD * TODO_DIFFICULTY_MULTIPLIERS(difficulty)

\* Mutant: any deadline counts, the clock is not consulted.
IsFuture_AnyDeadline(deadline) == deadline # None

IsFuture(deadline) == deadline # None /\ deadline > now

\* The deadline a request carries: none, one that is not in the future, one
\* that is (while the clock can still reach it).
Deadlines == {None, now} \cup ({now + 1} \cap Times)

LogEntry(type, todo_id, gold_change) ==
    [type |-> type, todo |-> todo_id, xp_change |-> 0, gold_change |-> gold_change]

Found(todo_id) == todo_id \in DOMAIN todos

\* The ids insert_one has handed out so far: the ids a request can name.
IssuedIds == 1..(nextTodo - 1)

\* Handler op runs for todo_id with the deadline argument arg (None when it
\* takes none): one more request is handled, within the budget.
Handled(op, todo_id, arg) ==
    /\ requests < MaxRequests
    /\ requests' = requests + 1
    /\ lastOp' = <<op, todo_id, arg>>

\* POST /todos/
create_todo(difficulty, deadline, published) ==
    LET potential_reward == PotentialReward(difficulty)
        future == IsFuture(deadline)
        upfront_gold == IF future THEN potential_reward ELSE 0
        todo_id == nextTodo
        qstash_id == IF future THEN schedule_expiry_check(published) ELSE None
        todo == [status |-> "active",
                 difficulty |-> difficulty,
                 deadline |-> deadline,
                 completed_at |-> None,
                 qstash_message_id |-> qstash_id,
                 upfront_gold_given |-> upfront_gold,
                 potential_reward |-> potential_reward]
    IN /\ nextTodo <= MaxTodos
       /\ todos' = [i \in DOMAIN todos \cup {todo_id} |->
                       IF i = todo_id THEN todo ELSE todos[i]]
       /\ nextTodo' = nextTodo + 1
       /\ IF future
          THEN /\ qstash' = Published(qstash, published, todo_id, deadline)
               /\ stats' = [stats EXCEPT !.gold = stats.gold + upfront_gold]
               /\ activity_logs' = Append(activity_logs,
                                          LogEntry("todo_create", todo_id, upfront_gold))
          ELSE UNCHANGED <<qstash, stats, activity_logs>>

CreateTodo ==
    \E difficulty \in Difficulties, deadline \in Deadlines :
      \E published \in (IF IsFuture(deadline) THEN PublishOutcomes ELSE {FALSE}) :
        /\ create_todo(difficulty, deadline, published)
        /\ Handled("create_todo", nextTodo, deadline)
        /\ UNCHANGED <<now, penalized, procs>>

\* POST /todos/check_validity/{todo_id}
\* Mutant: the penalty is the loan itself, not twice the loan.
Penalty_Once(todo) == todo.upfront_gold_given

Penalty(todo) == 2 * todo.upfront_gold_given

PenalizedGold(current_gold, penalty) == Max(0, current_gold - penalty)

\* Mutant: the callback acts on every todo that is not completed.
MarksOverdue_UnlessCompleted(todo) == todo.status # "completed"

\* The callback acts only on a todo that is still active.
MarksOverdue(todo) == todo.status = "active"

check_todo_validity(todo_id) ==
    IF ~Found(todo_id)
    THEN UNCHANGED <<stats, todos, activity_logs, penalized>>
    ELSE LET todo == todos[todo_id] IN
         IF todo.status = "completed"
         THEN UNCHANGED <<stats, todos, activity_logs, penalized>>
         ELSE IF MarksOverdue(todo)
         THEN /\ todos' = [todos EXCEPT ![todo_id].status = "overdue"]
              /\ stats' = [stats EXCEPT !.gold = PenalizedGold(stats.gold, Penalty(todo))]
              /\ penalized' = [penalized EXCEPT ![todo_id] = @ + 1]
              /\ activity_logs' = Append(activity_logs,
                                         LogEntry("todo_overdue", todo_id, 0 - Penalty(todo)))
         ELSE UNCHANGED <<stats, todos, activity_logs, penalized>>

\* The external scheduler delivers pending message m, whose time has come, by
\* calling check_todo_validity, and drops it.
Deliver(m) ==
    /\ m \in qstash
    /\ now >= m.not_before
    /\ check_todo_validity(m.todo_id)
    /\ qstash' = qstash \ {m}
    /\ Handled("check_todo_validity", m.todo_id, None)
    /\ UNCHANGED <<now, nextTodo, procs>>

DeliverCallback == \E m \in qstash : Deliver(m)

\* PUT /todos/{todo_id}
\* The owner's gold after the loan is reverted (deadline removed).
RevertedLoan(gold, todo) == Max(0, gold - todo.upfront_gold_given)

update_todo(todo_id, new_deadline, cancel_ok, published) ==
    IF ~Found(todo_id)
    THEN UNCHANGED <<stats, todos, qstash>>
    ELSE LET todo == todos[todo_id]
             old_deadline == todo.deadline
         IN
         IF todo.status # "active"
         THEN UNCHANGED <<stats, todos, qstash>>
         ELSE IF old_deadline # None /\ new_deadline = None
         THEN \* Case 1: Deadline Removed
              /\ stats' = IF todo.upfront_gold_given > 0
                          THEN [stats EXCEPT !.gold = RevertedLoan(stats.gold, todo)]
                          ELSE stats
              /\ qstash' = cancel_previous_schedule(qstash, todo.qstash_message_id, cancel_ok)
              /\ todos' = [todos EXCEPT ![todo_id] =
                               [todo EXCEPT !.deadline = None,
                                            !.upfront_gold_given = 0,
                                            !.qstash_message_id = None]]
         ELSE IF old_deadline = None /\ new_deadline # None
         THEN \* Case 2: Deadline Added
              IF new_deadline > now
              THEN /\ stats' = [stats EXCEPT !.gold = stats.gold + todo.potential_reward]
                   /\ qstash' = Published(qstash, published, todo_id, new_deadline)
                   /\ todos' = [todos EXCEPT ![todo_id] =
                                    [todo EXCEPT !.deadline = new_deadline,
                                                 !.upfront_gold_given = todo.potential_reward,
                                                 !.qstash_message_id = schedule_expiry_check(published)]]
              ELSE /\ todos' = [todos EXCEPT ![todo_id].deadline = new_deadline]
                   /\ UNCHANGED <<stats, qstash>>
         ELSE IF old_deadline # None /\ new_deadline # None
         THEN \* Case 3: Deadline Changed (Set -> Set)
              IF new_deadline > now
              THEN /\ qstash' = Published(
                                   cancel_previous_schedule(qstash, todo.qstash_message_id, cancel_ok),
                                   published, todo_id, new_deadline)
                   /\ todos' = [todos EXCEPT ![todo_id] =
                                    [todo EXCEPT !.deadline = new_deadline,
                                                 !.qstash_message_id = schedule_expiry_check(published)]]
                   /\ UNCHANGED stats
              ELSE /\ todos' = [todos EXCEPT ![todo_id].deadline = new_deadline]
                   /\ UNCHANGED <<stats, qstash>>
         ELSE \* None -> None: the deadline is written back as it was
              UNCHANGED <<stats, todos, qstash>>

\* The outcomes of the scheduler calls update_todo makes for this request.
UpdateCancels(todo_id, new_deadline) ==
    IF Found(todo_id) /\ todos[todo_id].deadline # None
       /\ (new_deadline = None \/ new_deadline > now)
    THEN CancelOutcomes(todos[todo_id].qstash_message_id)
    ELSE {TRUE}

UpdatePublishes(new_deadline) ==
    IF IsFuture(new_deadline) THEN PublishOutcomes ELSE {FALSE}

UpdateTodo ==
    \E todo_id \in IssuedIds, new_deadline \in Deadlines :
      \E cancel_ok \in UpdateCancels(todo_id, new_deadline),
         published \in UpdatePublishes(new_deadline) :
        /\ update_todo(todo_id, new_deadline, cancel_ok, published)
        /\ Handled("update_todo", todo_id, new_deadline)
        /\ UNCHANGED <<now, nextTodo, activity_logs, penalized, procs>>

\* POST /todos/{todo_id}/complete
XpGain(todo) == TODO_XP_VALUE * TODO_DIFFICULTY_MULTIPLIERS(todo.difficulty)

\* The stats document after complete_todo's update of gold, xp, level, max_xp.
CompletedStats(user, todo) ==
    LET leveled == calculate_new_level_and_xp(user.level, user.xp, XpGain(todo))
    IN [user EXCEPT !.gold = user.gold + todo.potential_reward,
                    !.xp = leveled[2],
                    !.level = leveled[1],
                    !.max_xp = leveled[3]]

\* Mutant: the handle is not cleared.
CompletedTodo_KeepsHandle(todo) ==
    [todo EXCEPT !.status = "completed", !.completed_at = now]

\* The todo document after complete_todo's update.
CompletedTodo(todo) ==
    [todo EXCEPT !.status = "completed", !.completed_at = now, !.qstash_message_id = None]

complete_todo(todo_id, cancel_ok) ==
    IF ~Found(todo_id)
    THEN UNCHANGED <<stats, todos, qstash>>
    ELSE LET todo == todos[todo_id] IN
         IF todo.status # "active"
         THEN UNCHANGED <<stats, todos, qstash>>
         ELSE /\ qstash' = cancel_previous_schedule(qstash, todo.qstash_message_id, cancel_ok)
              /\ stats' = CompletedStats(stats, todo)
              /\ todos' = [todos EXCEPT ![todo_id] = CompletedTodo(todo)]

\* The outcomes of the cancel call of complete_todo and delete_todo.
HandleCancels(todo_id) ==
    IF Found(todo_id) THEN CancelOutcomes(todos[todo_id].qstash_message_id) ELSE {TRUE}

CompleteTodo ==
    \E todo_id \in IssuedIds :
      \E cancel_ok \in HandleCancels(todo_id) :
        /\ complete_todo(todo_id, cancel_ok)
        /\ Handled("complete_todo", todo_id, None)
        /\ UNCHANGED <<now, nextTodo, activity_logs, penalized, procs>>

\* DELETE /todos/{todo_id}
\* The owner's gold after delete_todo: the loan is taken back whenever
\* upfront_gold_given > 0, whatever the status.
GoldAfterDelete(gold, todo) ==
    IF todo.upfront_gold_given > 0
    THEN Max(0, gold - todo.upfront_gold_given)
    ELSE gold

delete_todo(todo_id, cancel_ok) ==
    IF ~Found(todo_id)
    THEN UNCHANGED <<stats, todos, qstash>>
    ELSE LET todo == todos[todo_id] IN
         /\ qstash' = cancel_previous_schedule(qstash, todo.qstash_message_id, cancel_ok)
         /\ stats' = [stats EXCEPT !.gold = GoldAfterDelete(stats.gold, todo)]
         /\ todos' = [i \in DOMAIN todos \ {todo_id} |-> todos[i]]

DeleteTodo ==
    \E todo_id \in IssuedIds :
      \E cancel_ok \in HandleCancels(todo_id) :
        /\ delete_todo(todo_id, cancel_ok)
        /\ Handled("delete_todo", todo_id, None)
        /\ UNCHANGED <<now, nextTodo, activity_logs, penalized, procs>>

\* POST /todos/{todo_id}/renew
RenewCost(todo) == todo.potential_reward \div 10

\* Mutant: the fee is not checked against the owner's gold.
RenewAccepted_NoFundsCheck(todo_id, deadline) ==
    /\ Found(todo_id)
    /\ todos[todo_id].status = "overdue"
    /\ ~(deadline = None \/ deadline <= now)

\* Mutant: a todo of any status is renewed.
RenewAccepted_AnyStatus(todo_id, deadline) ==
    /\ Found(todo_id)
    /\ ~(deadline = None \/ deadline <= now)
    /\ ~(stats.gold < RenewCost(todos[todo_id]))

\* renew_todo goes through: the todo is overdue, the deadline is in the
\* future and the owner can pay the fee.
RenewAccepted(todo_id, deadline) ==
    /\ Found(todo_id)
    /\ todos[todo_id].status = "overdue"
    /\ ~(deadline = None \/ deadline <= now)
    /\ ~(stats.gold < RenewCost(todos[todo_id]))

renew_todo(todo_id, deadline, published) ==
    IF ~RenewAccepted(todo_id, deadline)
    THEN UNCHANGED <<stats, todos, qstash, penalized>>
    ELSE LET todo == todos[todo_id] IN
         /\ stats' = [stats EXCEPT !.gold = stats.gold - RenewCost(todo)]
         /\ qstash' = Published(qstash, published, todo_id, deadline)
         /\ todos' = [todos EXCEPT ![todo_id] =
                          [todo EXCEPT !.status = "active",
                                       !.deadline = deadline,
                                       !.qstash_message_id = schedule_expiry_check(published)]]
         /\ penalized' = [penalized EXCEPT ![todo_id] = 0]

RenewTodo ==
    \E todo_id \in IssuedIds, deadline \in Deadlines :
      \E published \in (IF RenewAccepted(todo_id, deadline) THEN PublishOutcomes ELSE {FALSE}) :
        /\ renew_todo(todo_id, deadline, published)
        /\ Handled("renew_todo", todo_id, deadline)
        /\ UNCHANGED <<now, nextTodo, activity_logs, procs>>

\* The clock advances.
Tick ==
    /\ now < MaxTime
    /\ now' = now + 1
    /\ lastOp' = <<"tick", None, None>>
    /\ UNCHANGED <<stats, todos, nextTodo, qstash, activity_logs, requests, penalized, procs>>

Next ==
    \/ CreateTodo /\ UNCHANGED otherVars
    \/ DeliverCallback /\ UNCHANGED otherVars
    \/ UpdateTodo /\ UNCHANGED otherVars
    \/ CompleteTodo /\ UNCHANGED otherVars
    \/ DeleteTodo /\ UNCHANGED otherVars
    \/ RenewTodo /\ UNCHANGED otherVars
    \/ Tick /\ UNCHANGED otherVars

Spec == Init /\ [][Next]_vars

\* ------------------------------------------------ interleaved handlers
\* The handlers are coroutines: they run without interruption from one await
\* to the next, and other handlers run while they wait for the database.
\* check_todo_validity, complete_todo and renew_todo are split at their
\* awaits; create_todo, update_todo and delete_todo run as above.  A request
\* for an id that is not in db.todos is answered 404 and starts no process.
Proc(p, record) == [procs EXCEPT ![p] = record]

\* check_todo_validity, up to the result of find_one and the status guard.
\* The scheduler keeps the message and may deliver it again (at-least-once
\* delivery); only a successful cancel removes it.
CvStart(p, m) ==
    /\ procs[p] = Idle
    /\ m \in qstash
    /\ now >= m.not_before
    /\ Handled("check_todo_validity", m.todo_id, None)
    /\ procs' = IF /\ Found(m.todo_id)
                   /\ todos[m.todo_id].status # "completed"
                   /\ MarksOverdue(todos[m.todo_id])
                THEN Proc(p, [pc |-> "cv_set_overdue", todo_id |-> m.todo_id,
                              penalty |-> Penalty(todos[m.todo_id])])
                ELSE procs
    /\ UNCHANGED <<now, stats, todos, nextTodo, qstash, activity_logs, penalized>>

\* update_one: $set status = overdue on the document, if it still exists.
CvSetOverdue(p) ==
    /\ procs[p].pc = "cv_set_overdue"
    /\ todos' = IF Found(procs[p].todo_id)
                THEN [todos EXCEPT ![procs[p].todo_id].status = "overdue"]
                ELSE todos
    /\ procs' = Proc(p, [procs[p] EXCEPT !.pc = "cv_read_user"])
    /\ UNCHANGED <<now, stats, nextTodo, qstash, activity_logs, requests, lastOp, penalized>>

\* find_one on the user: current_gold.
CvReadUser(p) ==
    /\ procs[p].pc = "cv_read_user"
    /\ procs' = Proc(p, [pc |-> "cv_write_gold", todo_id |-> procs[p].todo_id,
                         penalty |-> procs[p].penalty, current_gold |-> stats.gold])
    /\ UNCHANGED <<now, stats, todos, nextTodo, qstash, activity_logs, requests, lastOp,
                   penalized>>

\* update_one: $set stats.gold = max(0, current_gold - penalty).
CvWriteGold(p) ==
    /\ procs[p].pc = "cv_write_gold"
    /\ stats' = [stats EXCEPT !.gold = PenalizedGold(procs[p].current_gold, procs[p].penalty)]
    /\ penalized' = [penalized EXCEPT ![procs[p].todo_id] = @ + 1]
    /\ procs' = Proc(p, [pc |-> "cv_log", todo_id |-> procs[p].todo_id,
                         penalty |-> procs[p].penalty])
    /\ UNCHANGED <<now, todos, nextTodo, qstash, activity_logs, requests, lastOp>>

\* insert_one into the activity log.
CvLog(p) ==
    /\ procs[p].pc = "cv_log"
    /\ activity_logs' = Append(activity_logs,
                               LogEntry("todo_overdue", procs[p].todo_id, 0 - procs[p].penalty))
    /\ procs' = Proc(p, Idle)
    /\ UNCHANGED <<now, stats, todos, nextTodo, qstash, requests, lastOp, penalized>>

\* complete_todo: get_current_user reads the user.
CoStart(p, todo_id) ==
    /\ procs[p] = Idle
    /\ Found(todo_id)
    /\ Handled("complete_todo", todo_id, None)
    /\ procs' = Proc(p, [pc |-> "co_find", todo_id |-> todo_id, user |-> stats])
    /\ UNCHANGED <<now, stats, todos, nextTodo, qstash, activity_logs, penalized>>

\* find_one on the todo, the status check, the cancel call and the new stats
\* computed from the user read at the start.
CoFind(p, cancel_ok) ==
    /\ procs[p].pc = "co_find"
    /\ LET todo_id == procs[p].todo_id IN
       IF Found(todo_id) /\ todos[todo_id].status = "active"
       THEN /\ qstash' = cancel_previous_schedule(qstash, todos[todo_id].qstash_message_id,
                                                  cancel_ok)
            /\ procs' = Proc(p, [pc |-> "co_write_user", todo_id |-> todo_id,
                                 new_stats |-> CompletedStats(procs[p].user, todos[todo_id])])
       ELSE /\ procs' = Proc(p, Idle)
            /\ UNCHANGED qstash
    /\ UNCHANGED <<now, stats, todos, nextTodo, activity_logs, requests, lastOp, penalized>>

\* update_one: $set stats.gold, stats.xp, stats.level, stats.max_xp.
CoWriteUser(p) ==
    /\ procs[p].pc = "co_write_user"
    /\ stats' = procs[p].new_stats
    /\ procs' = Proc(p, [pc |-> "co_write_todo", todo_id |-> procs[p].todo_id])
    /\ UNCHANGED <<now, todos, nextTodo, qstash, activity_logs, requests, lastOp, penalized>>

\* update_one: $set status = completed, completed_at, qstash_message_id = None.
CoWriteTodo(p) ==
    /\ procs[p].pc = "co_write_todo"
    /\ todos' = IF Found(procs[p].todo_id)
                THEN [todos EXCEPT ![procs[p].todo_id] = CompletedTodo(todos[procs[p].todo_id])]
                ELSE todos
    /\ procs' = Proc(p, Idle)
    /\ UNCHANGED <<now, stats, nextTodo, qstash, activity_logs, requests, lastOp, penalized>>

\* renew_todo: get_current_user reads the user.
ReStart(p, todo_id, deadline) ==
    /\ procs[p] = Idle
    /\ Found(todo_id)
    /\ Handled("renew_todo", todo_id, deadline)
    /\ procs' = Proc(p, [pc |-> "re_find", todo_id |-> todo_id, deadline |-> deadline,
                         user |-> stats])
    /\ UNCHANGED <<now, stats, todos, nextTodo, qstash, activity_logs, penalized>>

\* find_one on the todo and the three checks, against the user read at the start.
ReFind(p) ==
    /\ procs[p].pc = "re_find"
    /\ LET todo_id == procs[p].todo_id
           deadline == procs[p].deadline
       IN procs' = IF /\ Found(todo_id)
                      /\ todos[todo_id].status = "overdue"
                      /\ ~(deadline = None \/ deadline <= now)
                      /\ ~(procs[p].user.gold < RenewCost(todos[todo_id]))
                   THEN Proc(p, [pc |-> "re_write_gold", todo_id |-> todo_id,
                                 deadline |-> deadline,
                                 new_gold |-> procs[p].user.gold - RenewCost(todos[todo_id])])
                   ELSE Proc(p, Idle)
    /\ UNCHANGED <<now, stats, todos, nextTodo, qstash, activity_logs, requests, lastOp,
                   penalized>>

\* update_one: $set stats.gold = new_gold.
ReWriteGold(p) ==
    /\ procs[p].pc = "re_write_gold"
    /\ stats' = [stats EXCEPT !.gold = procs[p].new_gold]
    /\ procs' = Proc(p, [pc |-> "re_write_todo", todo_id |-> procs[p].todo_id,
                         deadline |-> procs[p].deadline])
    /\ UNCHANGED <<now, todos, nextTodo, qstash, activity_logs, requests, lastOp, penalized>>

\* schedule_expiry_check, then update_one: $set status = active, deadline,
\* qstash_message_id.
ReWriteTodo(p, published) ==
    /\ procs[p].pc = "re_write_todo"
    /\ LET todo_id == procs[p].todo_id
           deadline == procs[p].deadline
       IN /\ qstash' = Published(qstash, published, todo_id, deadline)
          /\ IF Found(todo_id)
             THEN /\ todos' = [todos EXCEPT ![todo_id] =
                                  [todos[todo_id] EXCEPT
                                      !.status = "active",
                                      !.deadline = deadline,
                                      !.qstash_message_id = schedule_expiry_check(published)]]
                  /\ penalized' = [penalized EXCEPT ![todo_id] = 0]
             ELSE UNCHANGED <<todos, penalized>>
    /\ procs' = Proc(p, Idle)
    /\ UNCHANGED <<now, stats, nextTodo, activity_logs, requests, lastOp>>

CheckValidityStep ==
    \E p \in ProcIds :
        \/ \E m \in qstash : CvStart(p, m)
        \/ CvSetOverdue(p)
        \/ CvReadUser(p)
        \/ CvWriteGold(p)
        \/ CvLog(p)

CompleteStep ==
    \E p \in ProcIds :
        \/ \E todo_id \in TodoIds : CoStart(p, todo_id)
        \/ \E cancel_ok \in BOOLEAN : CoFind(p, cancel_ok)
        \/ CoWriteUser(p)
        \/ CoWriteTodo(p)

RenewStep ==
    \E p \in ProcIds :
        \/ \E todo_id \in TodoIds, deadline \in Deadlines : ReStart(p, todo_id, deadline)
        \/ ReFind(p)
        \/ ReWriteGold(p)
        \/ \E published \in PublishOutcomes : ReWriteTodo(p, published)

\* The interleaved specification handles at most MaxConcRequests requests.
WithinConcBudget == requests' <= MaxConcRequests /\ UNCHANGED otherVars

NextConc ==
    \/ CreateTodo /\ WithinConcBudget
    \/ UpdateTodo /\ WithinConcBudget
    \/ DeleteTodo /\ WithinConcBudget
    \/ CheckValidityStep /\ WithinConcBudget
    \/ CompleteStep /\ WithinConcBudget
    \/ RenewStep /\ WithinConcBudget
    \/ Tick /\ UNCHANGED otherVars

SpecConc == Init /\ [][NextConc]_vars

\* ------------------------------------------- callers of core/leveling.py
\* calculate_new_level_and_xp as a function of its own: the stats document
\* starts at any level and experience of LevelInputs and XpInputs, and each
\* step is one call, either of the function by itself with any gain of
\* XpGains, or from one of the routes with a gain that route computes.  A
\* caller binds the result to as many names as its assignment has; Python
\* raises ValueError when the tuple has another length, and the handler then
\* writes nothing.
LevelInputs == (1..MaxLevelInput) \cup {Len(LEVEL_XP_THRESHOLDS), Len(LEVEL_XP_THRESHOLDS) + 1}
XpInputs(level) == {0, 10, RequiredXp(level) - 10}
XpGains == {-5600, -150, -20, 20, 120, 250, 400}

Callers == {"trigger_habit", "complete_todo", "complete_task",
            "toggle_habit_status", "toggle_daily"}

\* The number of targets of the caller's unpacking assignment.
Targets(caller) ==
    IF caller \in {"trigger_habit", "complete_todo"} THEN 3 ELSE 2

\* The gains the routes pass: 10 or 20 for a success of an easy or hard
\* habit, 45 with the bonus of the 7-day milestone, -5 for a relapse; the
\* experience of a todo by difficulty (none for a dishonorable task); 5 per
\* multiplier for a habit marked, the same taken back on undo; the
\* experience of a daily, taken back on undo.
Gains(caller) ==
    CASE caller = "trigger_habit" -> {-5, 10, 20, 45}
      [] caller = "complete_todo" -> {TODO_XP_VALUE * m : m \in {1, 2, 4}}
      [] caller = "complete_task" -> {0} \cup {TODO_XP_VALUE * m : m \in {1, 2, 4}}
      [] caller = "toggle_habit_status" -> {5 * m : m \in {-4, -2, -1, 1, 2, 4}}
      [] caller = "toggle_daily" -> {DAILY_XP_VALUE, -DAILY_XP_VALUE}

InitLevel ==
    /\ now = 1
    /\ stats \in {[gold |-> 0, xp |-> x, level |-> l, max_xp |-> RequiredXp(l)] :
                    l \in LevelInputs, x \in UNION {XpInputs(k) : k \in LevelInputs}}
    /\ stats.xp \in XpInputs(stats.level)
    /\ todos = <<>>
    /\ nextTodo = 1
    /\ qstash = {}
    /\ activity_logs = <<>>
    /\ requests = 0
    /\ lastOp = <<"init", None, None>>
    /\ penalized = [t \in TodoIds |-> 0]
    /\ procs = [p \in ProcIds |-> Idle]
    /\ applied = NoCall
    /\ users = NoUsers
    /\ tasks = <<>>
    /\ lastRun = NoRun
    /\ errors = 0
    /\ ledger = NoLedger
    /\ habits = <<>>

ApplyExperience(caller, xp_gain) ==
    LET result == calculate_new_level_and_xp(stats.level, stats.xp, xp_gain)
        raised == Len(result) # Targets(caller)
    IN /\ requests < MaxCalls
       /\ requests' = requests + 1
       /\ applied' = [caller |-> caller, level |-> stats.level, xp |-> stats.xp,
                      xp_gain |-> xp_gain, result |-> result, raised |-> raised]
       /\ stats' = IF raised THEN stats
                   ELSE [stats EXCEPT !.level = result[1], !.xp = result[2]]
       /\ UNCHANGED <<now, todos, nextTodo, qstash, activity_logs, lastOp, penalized, procs>>
       /\ UNCHANGED <<users, tasks, lastRun, errors, ledger, habits>>

\* The function applied by itself: the result is only looked at.
Calculate(xp_gain) ==
    /\ requests < MaxCalls
    /\ requests' = requests + 1
    /\ applied' = [caller |-> "calculate_new_level_and_xp", level |-> stats.level,
                   xp |-> stats.xp, xp_gain |-> xp_gain,
                   result |-> calculate_new_level_and_xp(stats.level, stats.xp, xp_gain),
                   raised |-> FALSE]
    /\ UNCHANGED <<now, stats, todos, nextTodo, qstash, activity_logs, lastOp, penalized, procs>>
    /\ UNCHANGED <<users, tasks, lastRun, errors, ledger, habits>>

\* The function applied to the level and experience the last call returned,
\* with the gain of that call taken back.
Reverse ==
    /\ applied.caller = "calculate_new_level_and_xp"
    /\ requests < MaxCalls
    /\ requests' = requests + 1
    /\ applied' = [caller |-> "reverse", level |-> applied.result[1],
                   xp |-> applied.result[2], xp_gain |-> -applied.xp_gain,
                   result |-> calculate_new_level_and_xp(applied.result[1], applied.result[2],
                                                         -applied.xp_gain),
                   raised |-> FALSE]
    /\ UNCHANGED <<now, stats, todos, nextTodo, qstash, activity_logs, lastOp, penalized, procs>>
    /\ UNCHANGED <<users, tasks, lastRun, errors, ledger, habits>>

NextLevel ==
    \/ \E xp_gain \in XpGains : Calculate(xp_gain)
    \/ Reverse
    \/ \E caller \in Callers : \E xp_gain \in Gains(caller) : ApplyExperience(caller, xp_gain)

SpecLevel == InitLevel /\ [][NextLevel]_vars

\* ----------------------------------------- the loops of core/leveling.py
\* calculate_new_level_and_xp run statement by statement: one step per
\* iteration of the de-level loop and of the level-up loop, one per exit.
\* The calls: levels inside and beyond the configured thresholds, with totals
\* that cross several levels either way.
LoopLevels == {1, 2, 3, 10, 11, 12}
LoopXps == {0, 50, 99}
LoopGains == XpGains \cup {-12000, 12000}

Call(current_level, current_xp, xp_gain) ==
    [pc |-> "de_level", current_level |-> current_level, current_xp |-> current_xp,
     xp_gain |-> xp_gain, new_level |-> current_level, total_xp |-> current_xp + xp_gain,
     result |-> <<>>]

InitLoop ==
    /\ now = 1
    /\ stats = [gold |-> 0, xp |-> 0, level |-> 1, max_xp |-> 100]
    /\ todos = <<>>
    /\ nextTodo = 1
    /\ qstash = {}
    /\ activity_logs = <<>>
    /\ requests = 0
    /\ lastOp = <<"init", None, None>>
    /\ penalized = [t \in TodoIds |-> 0]
    /\ procs \in {[p \in ProcIds |-> IF p = 1 THEN Call(l, x, g) ELSE Idle] :
                     l \in LoopLevels, x \in LoopXps, g \in LoopGains}
    /\ applied = NoCall
    /\ users = NoUsers
    /\ tasks = <<>>
    /\ lastRun = NoRun
    /\ errors = 0
    /\ ledger = NoLedger
    /\ habits = <<>>

\* while total_xp < 0, above level 1: one level down, its requirement added.
DeLevelStep ==
    /\ procs[1].pc = "de_level"
    /\ procs[1].total_xp < 0
    /\ procs[1].new_level > 1
    /\ procs' = Proc(1, [procs[1] EXCEPT
                            !.new_level = @ - 1,
                            !.total_xp = @ + RequiredXp(procs[1].new_level - 1)])

\* while total_xp < 0, at level 1: return 1, max(0, total_xp).
DeLevelClamp ==
    /\ procs[1].pc = "de_level"
    /\ procs[1].total_xp < 0
    /\ procs[1].new_level <= 1
    /\ procs' = Proc(1, [procs[1] EXCEPT !.pc = "returned",
                                         !.result = <<1, Max(0, procs[1].total_xp)>>])

\* The condition of the de-level loop is false: on to the level-up loop.
DeLevelExit ==
    /\ procs[1].pc = "de_level"
    /\ procs[1].total_xp >= 0
    /\ procs' = Proc(1, [procs[1] EXCEPT !.pc = "level_up"])

\* while True, the requirement is met: it is taken off, one level up.
LevelUpStep ==
    /\ procs[1].pc = "level_up"
    /\ procs[1].total_xp >= RequiredXp(procs[1].new_level)
    /\ procs' = Proc(1, [procs[1] EXCEPT
                            !.new_level = @ + 1,
                            !.total_xp = @ - RequiredXp(procs[1].new_level)])

\* break, and the return of the 3-tuple.
LevelUpBreak ==
    /\ procs[1].pc = "level_up"
    /\ procs[1].total_xp < RequiredXp(procs[1].new_level)
    /\ procs' = Proc(1, [procs[1] EXCEPT
                            !.pc = "returned",
                            !.result = <<procs[1].new_level, procs[1].total_xp,
                                         RequiredXp(procs[1].new_level)>>])

loopVars == <<now, stats, todos, nextTodo, qstash, activity_logs, requests, lastOp, penalized,
              applied, users, tasks, lastRun, errors, ledger, habits>>

NextLoop ==
    \/ DeLevelStep /\ UNCHANGED loopVars
    \/ DeLevelClamp /\ UNCHANGED loopVars
    \/ DeLevelExit /\ UNCHANGED loopVars
    \/ LevelUpStep /\ UNCHANGED loopVars
    \/ LevelUpBreak /\ UNCHANGED loopVars

\* The interpreter goes on executing the function until it returns.
SpecLoop == InitLoop /\ [][NextLoop]_vars /\ WF_vars(NextLoop)

\* ------------------------------------------------------ core/time_utils.py
\* An instant is half a day: instant 2d is the part of day d of the reference
\* zone before 05:30, instant 2d+1 the rest of it.  to_ist(x).date() is the
\* reference-zone day of an instant, whether x is aware or came back naive
\* (UTC) from the database.
DayLength == 2
to_ist_date(t) == t \div DayLength

\* datetime.min, the stand-in for a missing last_cron_check.
MinDate == -50

\* -------------------------------------------------------- core/scheduler.py
\* The sweep and what it reads: users with a health, a purse and a
\* watermark, and the habits and dailies of db.tasks.  The collections are
\* looked at from early on day 3 on: a user is either an old account without
\* a watermark and low on health, or was last swept late on day 2; db.tasks
\* holds up to MaxTasks of the documents POST /tasks/ stores.
SweepStart == 3 * DayLength
ItemCost == 10

UserInputs ==
    {[hp |-> 15, gold |-> ItemCost, last_cron_check |-> None, purchases |-> 0],
     [hp |-> 100, gold |-> ItemCost, last_cron_check |-> SweepStart - 1, purchases |-> 0]}

\* The documents of POST /tasks/, which stores the fields as the client
\* sent them: habits by difficulty, streak, last_completed_date (none, or
\* early on day 1, 2 or 3) and completed_today, and dailies completed or not.
Habit(difficulty, streak, last_completed_date, completed_today) ==
    [type |-> "habit", difficulty |-> difficulty, streak |-> streak, completed |-> FALSE,
     status |-> "active", deadline |-> None, upfront_gold_given |-> FALSE,
     completed_today |-> completed_today, last_completed_date |-> last_completed_date,
     user_id |-> None]

Daily(streak, completed) ==
    [type |-> "daily", difficulty |-> "easy", streak |-> streak, completed |-> completed,
     status |-> IF completed THEN "completed" ELSE "active",
     deadline |-> None, upfront_gold_given |-> FALSE,
     completed_today |-> FALSE, last_completed_date |-> None, user_id |-> None]

TaskBodies ==
    {Habit("hard", 2, SweepStart - 2 * DayLength, TRUE),
     Habit("easy", 2, SweepStart - DayLength, TRUE),
     Habit("easy", 2, SweepStart, TRUE),
     Habit("easy", 1, SweepStart, FALSE),
     Habit("easy", 2, None, TRUE),
     Habit("medium", 2, None, FALSE),
     Habit("hard", 0, SweepStart - 2 * DayLength, FALSE),
     Daily(2, TRUE),
     Daily(1, FALSE)}

InitSweep ==
    /\ now = SweepStart
    /\ users \in [UserIds -> UserInputs]
    /\ tasks \in UNION {[1..n -> {[body EXCEPT !.user_id = u] : body \in TaskBodies, u \in UserIds}] :
                         n \in 0..MaxTasks}
    /\ lastRun = NoRun
    /\ errors = 0
    /\ ledger = NoLedger
    /\ habits = <<>>
    /\ activity_logs = <<>>
    /\ lastOp = <<"init", None, None>>
    /\ stats = [gold |-> 0, xp |-> 0, level |-> 1, max_xp |-> 100]
    /\ todos = <<>>
    /\ nextTodo = 1
    /\ qstash = {}
    /\ requests = 0
    /\ penalized = [t \in TodoIds |-> 0]
    /\ procs = [p \in ProcIds |-> Idle]
    /\ applied = NoCall

\* What the sweep and the shop never touch.
todoVars == <<stats, todos, nextTodo, qstash, requests, penalized, procs, applied, habits>>

\* A request of user u is activity of u since the last sweep.
Active(u) == [lastRun EXCEPT ![u] = "none"]

Min(a, b) == IF a <= b THEN a ELSE b

\* Mutant: the restored health is not capped.
Restored_NoCap(hp) == hp + 20

\* The health after a restoring purchase.
Restored(hp) == Min(100, hp + 20)

\* POST /shop/buy/{item_id} for the health-restoring item: 400 when the gold
\* does not cover the cost; else the cost is taken, the purchase recorded and
\* 20 health restored.
buy_item(u) ==
    /\ users' = IF users[u].gold < ItemCost THEN users
                ELSE [users EXCEPT ![u].gold = @ - ItemCost,
                                   ![u].purchases = @ + 1,
                                   ![u].hp = Restored(users[u].hp)]
    /\ lastRun' = Active(u)
    /\ UNCHANGED <<now, tasks, activity_logs, lastOp, errors, ledger>>
    /\ UNCHANGED todoVars

BuyItem == \E u \in UserIds : buy_item(u)

\* Mutant: the day has rolled over whenever the clock is past the watermark.
IsRollover_ByInstant(t, last_cron_check) ==
    IF last_cron_check = None THEN TRUE ELSE t > last_cron_check

\* now_ist.date() > last_check.date(), a missing watermark counting as
\* datetime.min.
IsRollover(t, last_cron_check) ==
    LET last_check == IF last_cron_check = None THEN MinDate ELSE to_ist_date(last_cron_check)
    IN to_ist_date(t) > last_check

\* Mutant: only a completion dated yesterday counts.
MissedYesterday_OnlyYesterday(habit, t) ==
    IF habit.last_completed_date # None
    THEN to_ist_date(habit.last_completed_date) # to_ist_date(t - DayLength)
    ELSE ~habit.completed_today

\* missed_yesterday of the sweep at instant t.
MissedYesterday(habit, t) ==
    LET last_done == habit.last_completed_date
        yesterday_date == to_ist_date(t - DayLength)
        today_date == to_ist_date(t)
    IN IF last_done # None
       THEN ~(to_ist_date(last_done) = yesterday_date \/ to_ist_date(last_done) = today_date)
       ELSE ~habit.completed_today

\* penalty_map, medium when the difficulty is unknown.
Damage(difficulty) ==
    CASE difficulty = "easy" -> HP_PENALTY_EASY
      [] difficulty = "medium" -> HP_PENALTY_MEDIUM
      [] difficulty = "hard" -> HP_PENALTY_HARD
      [] OTHER -> HP_PENALTY_MEDIUM

IsPenalized(habit, t) == MissedYesterday(habit, t) /\ habit.streak > 0

\* Mutant: the flag is left as it is.
ShouldBeCompleted_Kept(habit, t) == habit.completed_today

\* should_be_completed: the habit was last done on the day of the sweep.
ShouldBeCompleted(habit, t) ==
    /\ habit.last_completed_date # None
    /\ to_ist_date(habit.last_completed_date) = to_ist_date(t)

\* The positions in db.tasks of the habits of user u, from position i on.
RECURSIVE HabitsFrom(_, _, _)
HabitsFrom(ts, u, i) ==
    IF i > Len(ts) THEN <<>>
    ELSE (IF ts[i].user_id = u /\ ts[i].type = "habit" THEN <<i>> ELSE <<>>)
         \o HabitsFrom(ts, u, i + 1)

\* The database writes of the sweep for one habit, in the order it awaits
\* them: streak reset and audit entry of a penalty, then the flag.
HabitWrites(i, habit, t) ==
    (IF IsPenalized(habit, t)
     THEN <<[op |-> "streak", id |-> i, value |-> 0],
            [op |-> "log", id |-> i, value |-> Damage(habit.difficulty)]>>
     ELSE <<>>)
    \o (IF habit.completed_today # ShouldBeCompleted(habit, t)
        THEN <<[op |-> "completed_today", id |-> i,
                value |-> IF ShouldBeCompleted(habit, t) THEN 1 ELSE 0]>>
        ELSE <<>>)

RECURSIVE AllHabitWrites(_, _, _)
AllHabitWrites(ts, ids, t) ==
    IF ids = <<>> THEN <<>>
    ELSE HabitWrites(Head(ids), ts[Head(ids)], t) \o AllHabitWrites(ts, Tail(ids), t)

\* total_damage: the penalties of the habits the sweep resets.
RECURSIVE TotalDamage(_, _, _)
TotalDamage(ts, ids, t) ==
    IF ids = <<>> THEN 0
    ELSE (IF IsPenalized(ts[Head(ids)], t) THEN Damage(ts[Head(ids)].difficulty) ELSE 0)
         + TotalDamage(ts, Tail(ids), t)

\* Mutant: the damage is subtracted without a floor.
NewHp_NoFloor(current_hp, total_damage) == current_hp - total_damage

NewHp(current_hp, total_damage) == Max(0, current_hp - total_damage)

\* Mutant: the watermark is left where it was.
NewWatermark_Kept(last_cron_check, t) == last_cron_check

\* $set last_cron_check = now_ist
NewWatermark(last_cron_check, t) == t

\* All writes of the sweep for user u at instant t, in order: the habits,
\* the health when there is damage, the dailies, the watermark.
UserWrites(db, u, t) ==
    LET ids == HabitsFrom(db.tasks, u, 1)
        total_damage == TotalDamage(db.tasks, ids, t)
    IN AllHabitWrites(db.tasks, ids, t)
       \o (IF total_damage > 0
           THEN <<[op |-> "hp", id |-> u, value |-> NewHp(db.users[u].hp, total_damage)]>>
           ELSE <<>>)
       \o <<[op |-> "dailies", id |-> u, value |-> 0],
            [op |-> "watermark", id |-> u,
             value |-> NewWatermark(db.users[u].last_cron_check, t)]>>

\* Mutant: the reset of a daily also clears its streak.
DailyReset_ClearsStreak(task) == [task EXCEPT !.completed = FALSE, !.streak = 0]

\* update_many's $set on one completed daily.
DailyReset(task) == [task EXCEPT !.completed = FALSE]

\* Mutant: update_many matches every completed task of the user.
ResetsDaily_AnyType(task, u) == task.user_id = u /\ task.completed

\* The filter of update_many: the completed dailies of the user.
ResetsDaily(task, u) == task.user_id = u /\ task.type = "daily" /\ task.completed

\* One write applied to the collections.
Write(db, u, w, t) ==
    CASE w.op = "streak" -> [db EXCEPT !.tasks[w.id].streak = 0]
      [] w.op = "log" ->
            [db EXCEPT !.logs = Append(@, [user_id |-> u, type |-> "penalty",
                                           message |-> <<w.id, w.value>>,
                                           xp_change |-> 0, timestamp |-> t])]
      [] w.op = "completed_today" -> [db EXCEPT !.tasks[w.id].completed_today = (w.value = 1)]
      [] w.op = "hp" -> [db EXCEPT !.users[u].hp = w.value]
      [] w.op = "dailies" ->
            [db EXCEPT !.tasks = [i \in DOMAIN db.tasks |->
                IF ResetsDaily(db.tasks[i], u)
                THEN DailyReset(db.tasks[i]) ELSE db.tasks[i]]]
      [] w.op = "watermark" -> [db EXCEPT !.users[u].last_cron_check = w.value]

RECURSIVE ApplyWrites(_, _, _, _, _)
ApplyWrites(db, u, writes, n, t) ==
    IF n = 0 THEN db
    ELSE ApplyWrites(Write(db, u, Head(writes), t), u, Tail(writes), n - 1, t)

\* The body of the loop for one user.  The user is skipped unless the day
\* has rolled over; an exception after stop writes leaves those writes in
\* place and the rest undone.
ProcessUser(db, u, stop, t) ==
    LET writes == UserWrites(db, u, t)
        raised == stop < Len(writes)
        outcome == IF ~IsRollover(t, db.users[u].last_cron_check) THEN "skipped"
                   ELSE IF raised THEN "failed" ELSE "processed"
        after == IF outcome = "skipped" THEN db
                 ELSE ApplyWrites(db, u, writes, Min(stop, Len(writes)), t)
    IN [after EXCEPT !.runs[u] = outcome]

\* Mutant: the first exception ends the run.
Resumes_UntilError(outcome) == outcome # "failed"

\* except Exception inside the loop: the loop goes on to the next user.
Resumes(outcome) == TRUE

RECURSIVE SweepFrom(_, _, _, _)
SweepFrom(db, u, stop, t) ==
    IF u > MaxUsers THEN db
    ELSE LET after == ProcessUser(db, u, stop[u], t)
         IN IF Resumes(after.runs[u])
            THEN SweepFrom(after, u + 1, stop, t)
            ELSE after

MaxWrites == 3 * MaxTasks + 3

\* The penalties of the habits of user u whose streak a run has set to 0,
\* from position i of db.tasks on.
RECURSIVE ResetDamage(_, _, _)
ResetDamage(after, u, i) ==
    IF i > Len(tasks) THEN 0
    ELSE (IF /\ tasks[i].user_id = u /\ tasks[i].type = "habit"
             /\ tasks[i].streak > 0 /\ after.tasks[i].streak = 0
          THEN Damage(tasks[i].difficulty) ELSE 0)
         + ResetDamage(after, u, i + 1)

\* The ledger after a run that leaves the collections as in after: what the
\* run reset is owed, what it took from the health is paid, and a health
\* of 0 marks the floor.
Booked(after) ==
    [u \in UserIds |->
        [unpaid |-> ledger[u].unpaid + ResetDamage(after, u, 1)
                    - (users[u].hp - after.users[u].hp),
         floored |-> ledger[u].floored \/ after.users[u].hp = 0]]

\* run_daily_maintenance: every user in turn.  At most one user raises in a
\* run: for user failing, only the first succeeded of its writes go through
\* (all of them when succeeded is the number of writes it has).
run_daily_maintenance(failing, succeeded) ==
    LET db == [tasks |-> tasks, users |-> users, logs |-> activity_logs, runs |-> lastRun]
        stop == [u \in UserIds |-> IF u = failing THEN succeeded ELSE MaxWrites]
        due == IsRollover(now, users[failing].last_cron_check)
    IN \E writes \in {IF due THEN Len(UserWrites(db, failing, now)) ELSE 0} :
         /\ succeeded <= writes
         /\ errors' = errors + (IF succeeded < writes THEN 1 ELSE 0)
         /\ errors' <= MaxErrors
         /\ \E after \in {SweepFrom(db, 1, stop, now)} :
              /\ tasks' = after.tasks
              /\ users' = after.users
              /\ activity_logs' = after.logs
              /\ lastRun' = after.runs
              /\ ledger' = Booked(after)
         /\ UNCHANGED <<now, lastOp>>
         /\ UNCHANGED todoVars

RunDailyMaintenance ==
    \E failing \in UserIds : \E succeeded \in 0..MaxWrites :
        run_daily_maintenance(failing, succeeded)

\* Half a day passes.
Elapse ==
    /\ to_ist_date(now + 1) <= MaxDay
    /\ now' = now + 1
    /\ lastRun' = IF to_ist_date(now + 1) = to_ist_date(now) THEN lastRun ELSE NoRun
    /\ UNCHANGED <<users, tasks, activity_logs, lastOp, errors, ledger>>
    /\ UNCHANGED todoVars

NextSweep ==
    \/ BuyItem
    \/ RunDailyMaintenance
    \/ Elapse

SpecSweep == InitSweep /\ [][NextSweep]_vars

\* The interval job: the scheduler goes on firing run_daily_maintenance, so
\* while a user stays due a run that changes something is not put off for
\* ever.  This is the weak fairness of RunDailyMaintenance with its
\* enabling condition written out: a run changes the watermark of a due
\* user, so WF_vars(RunDailyMaintenance) implies SweepFairness.
SweepDue == \E u \in UserIds : IsRollover(now, users[u].last_cron_check)

SweepFairness == <>[]SweepDue => []<><<RunDailyMaintenance>>_vars

\* The collections hold at most MaxFairTasks tasks here.
InitSweepFair == InitSweep /\ Len(tasks) <= MaxFairTasks

SpecSweepFair == InitSweepFair /\ [][NextSweep]_vars /\ SweepFairness

\* ---------------------------------------------- routes/tasks.py, habits.py
\* The habit and daily routes, for the user of the todo routes.  A datetime
\* read back from the database is naive and in UTC: its date() is the day
\* before the reference-zone day for an instant early in the day.
CurrentUser == 1
naive_date(t) == (t - 1) \div DayLength

\* The bodies posted to POST /tasks/ at instant t: a habit done at t, a
\* daily completed, and a task of the third kind ("todo") with a deadline.
RequestBodies(t) ==
    {Habit("easy", 2, t, TRUE),
     Daily(2, TRUE),
     [Daily(0, FALSE) EXCEPT !.type = "todo", !.difficulty = "hard", !.deadline = t + DayLength]}

\* What the task and habit routes never touch.
nonTaskVars == <<now, todos, nextTodo, qstash, penalized, procs, applied, users, lastRun, errors, ledger>>

\* POST /tasks/: the owner is set, a body with a deadline is paid its reward
\* in advance, the document is inserted.
create_task(task_in) ==
    LET reward == TODO_REWARD_GOLD * TODO_DIFFICULTY_MULTIPLIERS(task_in.difficulty)
        paid == task_in.deadline # None
    IN /\ Len(tasks) < MaxTasks
       /\ stats' = IF paid THEN [stats EXCEPT !.gold = @ + reward] ELSE stats
       /\ tasks' = Append(tasks, [task_in EXCEPT !.user_id = CurrentUser,
                                                 !.upfront_gold_given = paid])
       /\ UNCHANGED <<activity_logs, habits>>

CreateTask ==
    \E task_in \in RequestBodies(now) :
        /\ create_task(task_in)
        /\ Handled("create_task", Len(tasks) + 1, None)
        /\ UNCHANGED nonTaskVars

\* mult_map of the habit toggle.
mult_map(difficulty) ==
    CASE difficulty = "easy" -> 1
      [] difficulty = "medium" -> 2
      [] difficulty = "hard" -> 4
      [] OTHER -> 1

\* The two-name unpacking of the task routes: ValueError unless the result
\* has two components.
Unpacks(result, names) == Len(result) = names

\* POST /tasks/{task_id}/habit-toggle.  404 and 400 come before anything is
\* written, and so does the ValueError of the unpacking.
toggle_habit_status(task_id) ==
    IF task_id \notin DOMAIN tasks
    THEN UNCHANGED <<stats, tasks, activity_logs, habits>>
    ELSE
    LET task == tasks[task_id]
        mult == mult_map(task.difficulty)
        gold_gain == mult
        xp_gain == mult * 5
        today_date == to_ist_date(now)
        yesterday_date == today_date - 1
        fallback == task.last_completed_date = None /\ task.completed_today
        dated == fallback \/ task.last_completed_date # None
        last_date == IF fallback THEN today_date ELSE naive_date(task.last_completed_date)
        is_done_today == dated /\ last_date = today_date
        marked_streak == IF dated /\ last_date = yesterday_date THEN task.streak + 1
                         ELSE IF dated /\ last_date = today_date THEN task.streak
                         ELSE 1
        result == calculate_new_level_and_xp(stats.level, stats.xp,
                                             IF is_done_today THEN -xp_gain ELSE xp_gain)
    IN IF task.type # "habit" \/ ~Unpacks(result, 2)
       THEN UNCHANGED <<stats, tasks, activity_logs, habits>>
       ELSE IF ~is_done_today
       THEN /\ stats' = [stats EXCEPT !.gold = stats.gold + gold_gain,
                                      !.xp = result[2], !.level = result[1]]
            /\ activity_logs' = Append(activity_logs,
                  [type |-> "habit", task |-> task_id, xp_change |-> xp_gain, timestamp |-> now])
            /\ tasks' = [tasks EXCEPT ![task_id] =
                  [task EXCEPT !.completed_today = TRUE,
                               !.last_completed_date = now,
                               !.streak = marked_streak]]
            /\ UNCHANGED habits
       ELSE /\ stats' = [stats EXCEPT !.gold = stats.gold - gold_gain,
                                      !.xp = result[2], !.level = result[1]]
            /\ tasks' = [tasks EXCEPT ![task_id] =
                  [task EXCEPT !.completed_today = FALSE,
                               !.last_completed_date =
                                   IF task.streak > 1 THEN now - DayLength ELSE None,
                               !.streak = IF task.streak > 1 THEN task.streak - 1 ELSE 0]]
            /\ UNCHANGED <<activity_logs, habits>>

\* The task ids a request names: those of db.tasks and one that is not there.
TaskIds == 1..(Len(tasks) + 1)

ToggleHabit ==
    \E task_id \in TaskIds :
        /\ toggle_habit_status(task_id)
        /\ Handled("toggle_habit_status", task_id, None)
        /\ UNCHANGED nonTaskVars

\* POST /tasks/{task_id}/daily-toggle.
toggle_daily(task_id) ==
    IF task_id \notin DOMAIN tasks
    THEN UNCHANGED <<stats, tasks, activity_logs, habits>>
    ELSE
    LET task == tasks[task_id]
        undo == task.completed
        gold_change == IF undo THEN -DAILY_REWARD_GOLD ELSE DAILY_REWARD_GOLD
        xp_change == IF undo THEN -DAILY_XP_VALUE ELSE DAILY_XP_VALUE
        streak_change == IF undo THEN -1 ELSE 1
        result == calculate_new_level_and_xp(stats.level, stats.xp, xp_change)
    IN IF task.type # "daily" \/ ~Unpacks(result, 2)
       THEN UNCHANGED <<stats, tasks, activity_logs, habits>>
       ELSE /\ stats' = [stats EXCEPT !.gold = stats.gold + gold_change,
                                      !.xp = result[2], !.level = result[1]]
            /\ tasks' = [tasks EXCEPT ![task_id] =
                  [task EXCEPT !.completed = ~undo,
                               !.status = IF undo THEN "active" ELSE "completed",
                               !.streak = Max(0, task.streak + streak_change)]]
            /\ UNCHANGED <<activity_logs, habits>>

ToggleDaily ==
    \E task_id \in TaskIds :
        /\ toggle_daily(task_id)
        /\ Handled("toggle_daily", task_id, None)
        /\ UNCHANGED nonTaskVars

\* The bodies posted to POST /habits/: a positive habit one success short
\* of the 7-day milestone, and a negative habit without a streak.
HabitBodies ==
    {[type |-> "positive", difficulty |-> "easy", current_streak |-> 6, best_streak |-> 6,
      last_completed_date |-> None, milestones |-> <<>>, user_id |-> None],
     [type |-> "negative", difficulty |-> "hard", current_streak |-> 0, best_streak |-> 0,
      last_completed_date |-> None, milestones |-> <<>>, user_id |-> None]}

\* POST /habits/
create_habit(habit_in) ==
    /\ Len(habits) < MaxHabits
    /\ habits' = Append(habits, [habit_in EXCEPT !.user_id = CurrentUser])
    /\ UNCHANGED <<stats, tasks, activity_logs>>

CreateHabit ==
    \E habit_in \in HabitBodies :
        /\ create_habit(habit_in)
        /\ Handled("create_habit", Len(habits) + 1, None)
        /\ UNCHANGED nonTaskVars

\* mult_map of the trigger route for the whole multipliers (the 1.5 of
\* medium is not a whole number of gold and is left out of the inputs).
trigger_mult(difficulty) ==
    CASE difficulty = "easy" -> 1
      [] difficulty = "hard" -> 2
      [] OTHER -> 1

MILESTONES == {7, 21, 30, 66, 100, 365}

\* The label of a milestone, f"{new_streak}-Day Streak!": one label per day
\* count, written as the day count.
Label(day_count) == day_count

\* existing_labels = [m.label for m in habit.milestones]
existing_labels(habit) == {habit.milestones[i] : i \in DOMAIN habit.milestones}

\* Mutant: a milestone is unlocked whenever the streak lands on it.
BadgeUnlocked_Again(habit, success, new_streak) ==
    success /\ new_streak \in MILESTONES

\* badge_unlocked: the streak has increased onto a milestone whose label the
\* habit does not hold yet.
BadgeUnlocked(habit, success, new_streak) ==
    /\ success
    /\ new_streak \in MILESTONES
    /\ Label(new_streak) \notin existing_labels(habit)

\* Mutant: the best streak is left as it was.
NewBestStreak_Kept(habit, new_streak) == habit.best_streak

\* new_best_streak = max(habit.best_streak, new_streak)
NewBestStreak(habit, new_streak) == Max(habit.best_streak, new_streak)

\* POST /habits/{habit_id}/trigger.  The three-name unpacking raises
\* ValueError on the two components of the clamp, before any write.
trigger_habit(habit_id, action) ==
    IF habit_id \notin DOMAIN habits
    THEN UNCHANGED <<stats, tasks, activity_logs, habits>>
    ELSE
    LET habit == habits[habit_id]
        is_positive == habit.type = "positive"
        success == action = "success"
        mult == trigger_mult(habit.difficulty)
        hp_loss == (IF success THEN 0 ELSE IF is_positive THEN 10 ELSE 20) * mult
        new_streak == IF success THEN habit.current_streak + 1 ELSE 0
        new_best_streak == NewBestStreak(habit, new_streak)
        badge_unlocked == BadgeUnlocked(habit, success, new_streak)
        xp_change == (IF success THEN 10 ELSE 0) * mult
                     + (IF badge_unlocked THEN new_streak * 5 * mult ELSE 0)
                     - (IF hp_loss > 0 THEN 5 ELSE 0)
        gold_change == (IF success THEN 5 ELSE 0) * mult
                       + (IF badge_unlocked THEN new_streak * 2 * mult ELSE 0)
        result == calculate_new_level_and_xp(stats.level, stats.xp, xp_change)
    IN IF ~Unpacks(result, 3)
       THEN UNCHANGED <<stats, tasks, activity_logs, habits>>
       ELSE /\ stats' = [stats EXCEPT !.gold = stats.gold + gold_change,
                                      !.xp = result[2], !.level = result[1],
                                      !.max_xp = result[3]]
            /\ habits' = [habits EXCEPT ![habit_id] =
                  [habit EXCEPT !.current_streak = new_streak,
                                !.best_streak = new_best_streak,
                                !.last_completed_date = now,
                                !.milestones = IF badge_unlocked
                                               THEN Append(habit.milestones, Label(new_streak))
                                               ELSE habit.milestones]]
            /\ activity_logs' = Append(activity_logs,
                  [type |-> "habit_trigger", habit |-> habit_id, xp_change |-> xp_change,
                   timestamp |-> now])
            /\ UNCHANGED tasks

HabitIds == 1..(Len(habits) + 1)

TriggerHabit ==
    \E habit_id \in HabitIds, action \in {"success", "failure"} :
        /\ trigger_habit(habit_id, action)
        /\ Handled("trigger_habit", habit_id, action)
        /\ UNCHANGED nonTaskVars

\* Every route of the user, within MaxAllRequests requests.
WithinAllBudget == requests' <= MaxAllRequests

todoOnly == <<applied, users, lastRun, errors, ledger, tasks, habits>>

NextAll ==
    \/ CreateTodo /\ WithinAllBudget /\ UNCHANGED todoOnly
    \/ DeliverCallback /\ WithinAllBudget /\ UNCHANGED todoOnly
    \/ UpdateTodo /\ WithinAllBudget /\ UNCHANGED todoOnly
    \/ CompleteTodo /\ WithinAllBudget /\ UNCHANGED todoOnly
    \/ DeleteTodo /\ WithinAllBudget /\ UNCHANGED todoOnly
    \/ RenewTodo /\ WithinAllBudget /\ UNCHANGED todoOnly
    \/ CreateTask /\ WithinAllBudget
    \/ ToggleHabit /\ WithinAllBudget
    \/ ToggleDaily /\ WithinAllBudget
    \/ CreateHabit /\ WithinAllBudget
    \/ TriggerHabit /\ WithinAllBudget
    \/ Tick /\ UNCHANGED todoOnly

SpecAll == Init /\ [][NextAll]_vars

\* ------------------------------------------------- the toggle routes alone
\* The user's level and experience when the requests begin: a new user, a
\* user inside level 1, a user who has just reached level 2; the gold is
\* that of a new user (0.0) or one of the starting balances.
ToggleStats ==
    {[gold |-> g, xp |-> lx[2], level |-> lx[1], max_xp |-> RequiredXp(lx[1])] :
        g \in InitGolds \cup {0}, lx \in {<<1, 0>>, <<1, 50>>, <<2, 0>>}}

\* The habits and dailies in db.tasks at instant t: habits done at t with a
\* streak of 2 and of 1, a habit last done the day before, a habit never
\* done, dailies completed and open.
ToggleBodies(t) ==
    {Habit("easy", 2, t, TRUE),
     Habit("medium", 1, t, TRUE),
     Habit("hard", 1, t - DayLength, FALSE),
     Habit("easy", 0, None, FALSE),
     Daily(2, TRUE),
     Daily(0, FALSE)}

InitToggle ==
    /\ now = 1
    /\ stats \in ToggleStats
    /\ todos = <<>>
    /\ nextTodo = 1
    /\ qstash = {}
    /\ activity_logs = <<>>
    /\ requests = 0
    /\ lastOp = <<"init", None, None>>
    /\ penalized = [t \in TodoIds |-> 0]
    /\ procs = [p \in ProcIds |-> Idle]
    /\ applied = NoCall
    /\ users = NoUsers
    /\ tasks \in UNION {[1..n -> {[b EXCEPT !.user_id = CurrentUser] : b \in ToggleBodies(now)}] :
                          n \in 1..MaxTasks}
    /\ lastRun = NoRun
    /\ errors = 0
    /\ ledger = NoLedger
    /\ habits = <<>>

NextToggle ==
    \/ ToggleHabit
    \/ ToggleDaily
    \/ Tick /\ UNCHANGED todoOnly

SpecToggle == InitToggle /\ [][NextToggle]_vars

\* ------------------------------------------------- the trigger route alone
\* One habit of the user, as POST /habits/ stored it, and up to MaxTriggers
\* requests to POST /habits/{habit_id}/trigger.
InitHabit ==
    /\ now = 1
    /\ stats \in {[gold |-> g, xp |-> 0, level |-> 1, max_xp |-> 100] : g \in InitGolds}
    /\ todos = <<>>
    /\ nextTodo = 1
    /\ qstash = {}
    /\ activity_logs = <<>>
    /\ requests = 0
    /\ lastOp = <<"init", None, None>>
    /\ penalized = [t \in TodoIds |-> 0]
    /\ procs = [p \in ProcIds |-> Idle]
    /\ applied = NoCall
    /\ users = NoUsers
    /\ tasks = <<>>
    /\ lastRun = NoRun
    /\ errors = 0
    /\ ledger = NoLedger
    /\ habits \in {<<[habit_in EXCEPT !.user_id = CurrentUser]>> : habit_in \in HabitBodies}

Trigger ==
    \E habit_id \in HabitIds, action \in {"success", "failure"} :
        /\ trigger_habit(habit_id, action)
        /\ requests < MaxTriggers
        /\ requests' = requests + 1
        /\ lastOp' = <<"trigger_habit", habit_id, action>>
        /\ UNCHANGED nonTaskVars

NextHabit == Trigger

SpecHabit == InitHabit /\ [][NextHabit]_vars

\* ------------------------------------------- interleaved trigger requests
\* trigger_habit split at its awaits: get_current_user reads the user, the
\* handler reads the habit and computes every new value from the two reads,
\* then writes the user, writes the habit and inserts the log entry.
\* What the handler holds once it has read the habit.
TriggerEffect(habit, user, action) ==
    LET is_positive == habit.type = "positive"
        success == action = "success"
        mult == trigger_mult(habit.difficulty)
        hp_loss == (IF success THEN 0 ELSE IF is_positive THEN 10 ELSE 20) * mult
        new_streak == IF success THEN habit.current_streak + 1 ELSE 0
        badge_unlocked == BadgeUnlocked(habit, success, new_streak)
        xp_change == (IF success THEN 10 ELSE 0) * mult
                     + (IF badge_unlocked THEN new_streak * 5 * mult ELSE 0)
                     - (IF hp_loss > 0 THEN 5 ELSE 0)
        gold_change == (IF success THEN 5 ELSE 0) * mult
                       + (IF badge_unlocked THEN new_streak * 2 * mult ELSE 0)
    IN [new_streak |-> new_streak,
        new_best_streak |-> NewBestStreak(habit, new_streak),
        milestones |-> IF badge_unlocked
                       THEN Append(habit.milestones, Label(new_streak))
                       ELSE habit.milestones,
        xp_change |-> xp_change,
        new_gold |-> user.gold + gold_change,
        result |-> calculate_new_level_and_xp(user.level, user.xp, xp_change)]

\* Depends(get_current_user): the user document as the request starts.
TrStart(p, habit_id, action) ==
    /\ procs[p] = Idle
    /\ requests < MaxTrigRequests
    /\ requests' = requests + 1
    /\ lastOp' = <<"trigger_habit", habit_id, action>>
    /\ procs' = Proc(p, [pc |-> "tr_find", habit_id |-> habit_id, action |-> action,
                         current_user |-> stats])
    /\ UNCHANGED <<stats, habits, activity_logs>>

\* find_one on the habit, 404 if it is missing; everything up to the first
\* update_one, where the three-name unpacking raises on the clamp's pair.
TrFind(p) ==
    /\ procs[p].pc = "tr_find"
    /\ procs' = IF procs[p].habit_id \notin DOMAIN habits
                THEN Proc(p, Idle)
                ELSE LET effect == TriggerEffect(habits[procs[p].habit_id],
                                                 procs[p].current_user, procs[p].action)
                     IN IF ~Unpacks(effect.result, 3)
                        THEN Proc(p, Idle)
                        ELSE Proc(p, [pc |-> "tr_write_user", habit_id |-> procs[p].habit_id,
                                      action |-> procs[p].action, now_ist |-> now,
                                      effect |-> effect])
    /\ UNCHANGED <<stats, habits, activity_logs, requests, lastOp>>

\* update_one on the user: $set of gold, xp, level and max_xp.
TrWriteUser(p) ==
    /\ procs[p].pc = "tr_write_user"
    /\ stats' = [stats EXCEPT !.gold = procs[p].effect.new_gold,
                              !.xp = procs[p].effect.result[2],
                              !.level = procs[p].effect.result[1],
                              !.max_xp = procs[p].effect.result[3]]
    /\ procs' = Proc(p, [procs[p] EXCEPT !.pc = "tr_write_habit"])
    /\ UNCHANGED <<habits, activity_logs, requests, lastOp>>

\* update_one on the habit: $set of the streaks, the date and the whole
\* milestone list of the handler's copy.
TrWriteHabit(p) ==
    /\ procs[p].pc = "tr_write_habit"
    /\ habits' = [habits EXCEPT ![procs[p].habit_id] =
          [@ EXCEPT !.current_streak = procs[p].effect.new_streak,
                    !.best_streak = procs[p].effect.new_best_streak,
                    !.last_completed_date = procs[p].now_ist,
                    !.milestones = procs[p].effect.milestones]]
    /\ procs' = Proc(p, [procs[p] EXCEPT !.pc = "tr_log"])
    /\ UNCHANGED <<stats, activity_logs, requests, lastOp>>

\* The refetch and insert_one on db.activity_logs; the handler returns.
TrLog(p) ==
    /\ procs[p].pc = "tr_log"
    /\ activity_logs' = Append(activity_logs,
          [type |-> "habit_trigger", habit |-> procs[p].habit_id,
           xp_change |-> procs[p].effect.xp_change, timestamp |-> procs[p].now_ist])
    /\ procs' = Proc(p, Idle)
    /\ UNCHANGED <<stats, habits, requests, lastOp>>

trigVars == <<now, todos, nextTodo, qstash, penalized, applied, users, tasks, lastRun, errors, ledger>>

NextTrig ==
    \/ \E p \in ProcIds, habit_id \in HabitIds, action \in {"success", "failure"} :
          TrStart(p, habit_id, action) /\ UNCHANGED trigVars
    \/ \E p \in ProcIds : TrFind(p) /\ UNCHANGED trigVars
    \/ \E p \in ProcIds : TrWriteUser(p) /\ UNCHANGED trigVars
    \/ \E p \in ProcIds : TrWriteHabit(p) /\ UNCHANGED trigVars
    \/ \E p \in ProcIds : TrLog(p) /\ UNCHANGED trigVars

SpecTrig == InitHabit /\ [][NextTrig]_vars

\* --------------------------------- the habit toggle interleaved with the sweep
\* toggle_habit_status and run_daily_maintenance as coroutines of one event
\* loop: each reads its documents, decides on its writes from what it read,
\* and awaits the writes one by one while the other may run.
\* The collections late on day 2: user 1 holds up to MaxTasks habits, done
\* today, yesterday or two days ago; the users are those of the sweep.
RaceStart == SweepStart - 1

RaceBodies ==
    {Habit("easy", 2, RaceStart, TRUE),
     Habit("easy", 1, RaceStart, TRUE),
     Habit("easy", 2, RaceStart - DayLength, TRUE),
     Habit("hard", 2, RaceStart - 2 * DayLength, FALSE)}

InitRace ==
    /\ now = RaceStart
    /\ stats \in {s \in ToggleStats : s.gold = 0}
    /\ todos = <<>>
    /\ nextTodo = 1
    /\ qstash = {}
    /\ activity_logs = <<>>
    /\ requests = 0
    /\ lastOp = <<"init", None, None>>
    /\ penalized = [t \in TodoIds |-> 0]
    /\ procs = [p \in ProcIds |-> Idle]
    /\ applied = NoCall
    /\ users \in [UserIds -> UserInputs]
    /\ tasks \in UNION {[1..n -> {[body EXCEPT !.user_id = CurrentUser] : body \in RaceBodies}] :
                         n \in 1..MaxTasks}
    /\ lastRun = NoRun
    /\ errors = 0
    /\ ledger = NoLedger
    /\ habits = <<>>

\* Mutant: the undo leaves the completion dated today.
UndoneDate_Today(task, t) == t

\* new_last_completed_date of the undo: yesterday when the streak goes on,
\* none when it ends.
UndoneDate(task, t) == IF task.streak > 1 THEN t - DayLength ELSE None

\* The writes toggle_habit_status awaits for the task and the user it has
\* read, in order; none when the two-name unpacking raises.
ToggleWrites(task_id, task, user, t) ==
    LET mult == mult_map(task.difficulty)
        gold_gain == mult
        xp_gain == mult * 5
        today_date == to_ist_date(t)
        yesterday_date == today_date - 1
        fallback == task.last_completed_date = None /\ task.completed_today
        dated == fallback \/ task.last_completed_date # None
        last_date == IF fallback THEN today_date ELSE naive_date(task.last_completed_date)
        is_done_today == dated /\ last_date = today_date
        marked_streak == IF dated /\ last_date = yesterday_date THEN task.streak + 1
                         ELSE IF dated /\ last_date = today_date THEN task.streak
                         ELSE 1
        result == calculate_new_level_and_xp(user.level, user.xp,
                                             IF is_done_today THEN -xp_gain ELSE xp_gain)
    IN IF ~Unpacks(result, 2) THEN <<>>
       ELSE IF ~is_done_today
       THEN <<[op |-> "user", gold |-> user.gold + gold_gain, xp |-> result[2],
               level |-> result[1]],
              [op |-> "log", id |-> task_id, xp_change |-> xp_gain],
              [op |-> "task", id |-> task_id, completed_today |-> TRUE,
               last_completed_date |-> t, streak |-> marked_streak]>>
       ELSE <<[op |-> "user", gold |-> user.gold - gold_gain, xp |-> result[2],
               level |-> result[1]],
              [op |-> "task", id |-> task_id, completed_today |-> FALSE,
               last_completed_date |-> UndoneDate(task, t),
               streak |-> IF task.streak > 1 THEN task.streak - 1 ELSE 0]>>

\* Depends(get_current_user): the user document as the request starts.
ThStart(p, task_id) ==
    /\ procs[p] = Idle
    /\ requests < MaxRaceRequests
    /\ requests' = requests + 1
    /\ lastOp' = <<"toggle_habit_status", task_id, None>>
    /\ procs' = Proc(p, [pc |-> "th_find", task_id |-> task_id, current_user |-> stats])
    /\ UNCHANGED <<now, stats, tasks, users, activity_logs>>

\* find_one on the task, 404 and 400, and everything up to the first write.
ThFind(p) ==
    /\ procs[p].pc = "th_find"
    /\ procs' =
          IF procs[p].task_id \notin DOMAIN tasks THEN Proc(p, Idle)
          ELSE IF tasks[procs[p].task_id].type # "habit" THEN Proc(p, Idle)
          ELSE LET writes == ToggleWrites(procs[p].task_id, tasks[procs[p].task_id],
                                          procs[p].current_user, now)
               IN IF writes = <<>> THEN Proc(p, Idle)
                  ELSE Proc(p, [pc |-> "th_write", now_ist |-> now, writes |-> writes])
    /\ UNCHANGED <<now, stats, tasks, users, activity_logs, requests, lastOp>>

\* The next update_one or insert_one of the handler.
ThWrite(p) ==
    /\ procs[p].pc = "th_write"
    /\ LET w == Head(procs[p].writes)
       IN /\ stats' = IF w.op = "user"
                      THEN [stats EXCEPT !.gold = w.gold, !.xp = w.xp, !.level = w.level]
                      ELSE stats
          /\ activity_logs' = IF w.op = "log"
                              THEN Append(activity_logs,
                                     [type |-> "habit", task |-> w.id,
                                      xp_change |-> w.xp_change, timestamp |-> procs[p].now_ist])
                              ELSE activity_logs
          /\ tasks' = IF w.op = "task"
                      THEN [tasks EXCEPT ![w.id] =
                              [@ EXCEPT !.completed_today = w.completed_today,
                                        !.last_completed_date = w.last_completed_date,
                                        !.streak = w.streak]]
                      ELSE tasks
    /\ procs' = IF Len(procs[p].writes) = 1 THEN Proc(p, Idle)
                ELSE Proc(p, [procs[p] EXCEPT !.writes = Tail(@)])
    /\ UNCHANGED <<now, users, requests, lastOp>>

\* A sweep is in flight (the interval job runs one instance at a time).
Sweeping(p) == procs[p].pc \in {"sw_read", "sw_write"}

\* run_daily_maintenance starts: get_current_time and the users the cursor
\* returns.
SwStart(p) ==
    /\ procs[p] = Idle
    /\ \A q \in ProcIds : ~Sweeping(q)
    /\ procs' = Proc(p, [pc |-> "sw_read", now_ist |-> now, batch |-> users, u |-> 1])
    /\ lastOp' = <<"run_daily_maintenance", None, None>>
    /\ UNCHANGED <<now, stats, tasks, users, activity_logs, requests>>

\* The sweep goes on to the next user of the batch, or returns.
NextUser(p) ==
    IF procs[p].u = MaxUsers THEN Proc(p, Idle)
    ELSE Proc(p, [pc |-> "sw_read", now_ist |-> procs[p].now_ist, batch |-> procs[p].batch,
                  u |-> procs[p].u + 1])

\* The rollover check on the user of the batch and the habits the cursor
\* returns: the writes for this user are decided from these reads.
SwRead(p) ==
    /\ procs[p].pc = "sw_read"
    /\ procs' =
          IF ~IsRollover(procs[p].now_ist, procs[p].batch[procs[p].u].last_cron_check)
          THEN NextUser(p)
          ELSE Proc(p, [pc |-> "sw_write", now_ist |-> procs[p].now_ist,
                        batch |-> procs[p].batch, u |-> procs[p].u,
                        writes |-> UserWrites([tasks |-> tasks, users |-> procs[p].batch,
                                               logs |-> activity_logs, runs |-> lastRun],
                                              procs[p].u, procs[p].now_ist)])
    /\ UNCHANGED <<now, stats, tasks, users, activity_logs, requests, lastOp>>

\* The next write of the sweep, on the collections as they are now.
SwWrite(p) ==
    /\ procs[p].pc = "sw_write"
    /\ \E after \in {Write([tasks |-> tasks, users |-> users, logs |-> activity_logs,
                            runs |-> lastRun],
                           procs[p].u, Head(procs[p].writes), procs[p].now_ist)} :
          /\ tasks' = after.tasks
          /\ users' = after.users
          /\ activity_logs' = after.logs
    /\ procs' = IF Len(procs[p].writes) = 1 THEN NextUser(p)
                ELSE Proc(p, [procs[p] EXCEPT !.writes = Tail(@)])
    /\ UNCHANGED <<now, stats, requests, lastOp>>

\* Half a day passes.
RaceElapse ==
    /\ to_ist_date(now + 1) <= MaxDay
    /\ now' = now + 1
    /\ UNCHANGED <<stats, tasks, users, activity_logs, requests, lastOp, procs>>

raceVars == <<todos, nextTodo, qstash, penalized, applied, lastRun, errors, ledger, habits>>

NextRace ==
    \/ \E p \in ProcIds, task_id \in TaskIds : ThStart(p, task_id) /\ UNCHANGED raceVars
    \/ \E p \in ProcIds : ThFind(p) /\ UNCHANGED raceVars
    \/ \E p \in ProcIds : ThWrite(p) /\ UNCHANGED raceVars
    \/ \E p \in ProcIds : SwStart(p) /\ UNCHANGED raceVars
    \/ \E p \in ProcIds : SwRead(p) /\ UNCHANGED raceVars
    \/ \E p \in ProcIds : SwWrite(p) /\ UNCHANGED raceVars
    \/ RaceElapse /\ UNCHANGED raceVars

SpecRace == InitRace /\ [][NextRace]_vars

\* ------------------------------------------- the sweep among all documents
\* The sweep with every kind of document in the collections: db.tasks holds
\* a missed habit, a completed daily and a completed loan todo with a
\* streak, db.habits a habit of the trigger route.
FrameBodies ==
    {Habit("hard", 2, SweepStart - 2 * DayLength, TRUE),
     Daily(2, TRUE),
     [Daily(1, TRUE) EXCEPT !.type = "todo", !.difficulty = "hard",
                            !.deadline = SweepStart + DayLength,
                            !.upfront_gold_given = TRUE]}

InitFrame ==
    /\ now = SweepStart
    /\ users \in [UserIds -> UserInputs]
    /\ tasks \in UNION {[1..n -> {[body EXCEPT !.user_id = u] : body \in FrameBodies, u \in UserIds}] :
                         n \in 1..MaxTasks}
    /\ lastRun = NoRun
    /\ errors = 0
    /\ ledger = NoLedger
    /\ habits \in {<<[habit_in EXCEPT !.user_id = CurrentUser]>> :
                      habit_in \in {h \in HabitBodies : h.type = "positive"}}
    /\ activity_logs = <<>>
    /\ lastOp = <<"init", None, None>>
    /\ stats \in {s \in ToggleStats : s.gold = 0 /\ s.xp = 50}
    /\ todos = <<>>
    /\ nextTodo = 1
    /\ qstash = {}
    /\ requests = 0
    /\ penalized = [t \in TodoIds |-> 0]
    /\ procs = [p \in ProcIds |-> Idle]
    /\ applied = NoCall

SpecFrame == InitFrame /\ [][NextSweep]_vars

\* ================================================================ claims
\* Handler op has just run for todo t with deadline argument d.
Ran(op, t, d) == lastOp' = <<op, t, d>> /\ requests' = requests + 1

\* The experience needed to reach a level from level 1.
RECURSIVE CumulativeXp(_)
CumulativeXp(level) ==
    IF level <= 1 THEN 0 ELSE RequiredXp(level - 1) + CumulativeXp(level - 1)

TotalXp(level, xp) == CumulativeXp(level) + xp

\* The multiplier table of the todo routes, written out.
Multiplier(difficulty) ==
    IF difficulty = "easy" THEN 1 ELSE IF difficulty = "medium" THEN 2
    ELSE IF difficulty = "hard" THEN 4 ELSE 1

\* The cancellation of handle h has been requested: no pending message
\* carries it without the request recorded.
CancelledIn(q, h) == \A m \in q : m.id = h => m.cancel_requested

\* Handle h is what scheduling for (t, d) returned: the sentinel, or the id
\* of a newly pending message for t at d.
ScheduledIn(q, qOld, h, t, d) ==
    /\ h # None
    /\ h # ErrorHandle =>
         \E m \in q \ qOld : m.id = h /\ m.todo_id = t /\ m.not_before = d
                             /\ ~m.cancel_requested

\* C1: when the deadline callback runs for an active todo, the todo becomes
\* overdue and the owner's gold becomes max(0, gold - 2 * upfrontGoldGiven).
C1_CallbackPenalizesActive ==
    [][\A t \in TodoIds :
         (Ran("check_todo_validity", t, None) /\ Found(t) /\ todos[t].status = "active")
         => /\ todos'[t].status = "overdue"
            /\ stats'.gold = Max(0, stats.gold - 2 * todos[t].upfront_gold_given)]_vars

\* A hard todo (loan 40) has just been marked overdue and the penalty of 80
\* is in the audit log.
C1_Witness ==
    \E t \in DOMAIN todos :
        /\ lastOp = <<"check_todo_validity", t, None>>
        /\ todos[t].status = "overdue"
        /\ todos[t].upfront_gold_given = 40
        /\ activity_logs # <<>>
        /\ activity_logs[Len(activity_logs)] = LogEntry("todo_overdue", t, 0 - 80)

\* C3: when the deadline callback runs for a completed or overdue todo, the
\* todos, the owner's stats and the audit log stay exactly as they were.
C3_CallbackNoOp ==
    [][\A t \in TodoIds :
         (Ran("check_todo_validity", t, None) /\ Found(t)
          /\ todos[t].status \in {"completed", "overdue"})
         => /\ todos' = todos
            /\ stats' = stats
            /\ activity_logs' = activity_logs]_vars

\* The callback has just run for a todo that was completed before it ran.
C3_Witness ==
    \E t \in DOMAIN todos :
        /\ lastOp = <<"check_todo_validity", t, None>>
        /\ todos[t].status = "completed"

\* C4: a callback delivered after its cancellation was requested applies no
\* penalty and does not change any todo's status.
C4_CancelledCallbackHarmless ==
    [][\A m \in qstash :
         (m.cancel_requested /\ Ran("check_todo_validity", m.todo_id, None)
          /\ m \notin qstash')
         => /\ stats'.gold = stats.gold
            /\ \A t \in DOMAIN todos : t \in DOMAIN todos' /\ todos'[t].status = todos[t].status]_vars

\* C6: create sets potentialReward = baseReward x multiplier; exactly when the
\* deadline is in the future it grants the loan (upfrontGoldGiven and gold),
\* stores the handle scheduling returned and appends one audit entry;
\* otherwise upfrontGoldGiven is 0, gold is unchanged and no handle is stored.
C6_CreateLoan ==
    [][\A d \in Deadlines :
         Ran("create_todo", nextTodo, d) =>
           LET t == nextTodo
               todo == todos'[t]
               P == 10 * Multiplier(todo.difficulty)
           IN /\ todo.potential_reward = P
              /\ todo.status = "active"
              /\ todo.deadline = d
              /\ \A i \in DOMAIN todos : todos'[i] = todos[i]
              /\ IF d # None /\ d > now
                 THEN /\ todo.upfront_gold_given = P
                      /\ stats' = [stats EXCEPT !.gold = stats.gold + P]
                      /\ ScheduledIn(qstash', qstash, todo.qstash_message_id, t, d)
                      /\ activity_logs' = Append(activity_logs,
                            [type |-> "todo_create", todo |-> t, xp_change |-> 0,
                             gold_change |-> P])
                 ELSE /\ todo.upfront_gold_given = 0
                      /\ stats' = stats
                      /\ todo.qstash_message_id = None
                      /\ qstash' = qstash
                      /\ activity_logs' = activity_logs]_vars

\* A hard todo has just been created with a future deadline: loan 40, a
\* pending callback whose id is stored on the todo, one audit entry.
C6_Witness ==
    \E t \in DOMAIN todos :
        /\ lastOp[1] = "create_todo" /\ lastOp[2] = t
        /\ todos[t].upfront_gold_given = 40
        /\ stats.gold = 100
        /\ \E m \in qstash : m.id = todos[t].qstash_message_id /\ m.todo_id = t
        /\ Len(activity_logs) = 1

\* C7: complete is accepted only from active; it requests cancellation of the
\* stored callback, credits potentialReward (on top of a loan of 0 or
\* potentialReward), adds the experience through the leveling curve, sets
\* status completed and completedAt, and clears the handle.
C7_Complete ==
    [][\A t \in TodoIds :
         Ran("complete_todo", t, None) =>
           IF Found(t) /\ todos[t].status = "active"
           THEN LET todo == todos[t] IN
                /\ stats'.gold = stats.gold + todo.potential_reward
                /\ todo.upfront_gold_given \in {0, todo.potential_reward}
                /\ TotalXp(stats'.level, stats'.xp)
                     = TotalXp(stats.level, stats.xp) + 20 * Multiplier(todo.difficulty)
                /\ 0 <= stats'.xp /\ stats'.xp < stats'.max_xp
                /\ stats'.max_xp = RequiredXp(stats'.level)
                /\ todos' = [todos EXCEPT ![t] =
                                [todo EXCEPT !.status = "completed",
                                             !.completed_at = now,
                                             !.qstash_message_id = None]]
                /\ CancelledIn(qstash', todo.qstash_message_id)
                /\ activity_logs' = activity_logs
           ELSE UNCHANGED <<todos, stats, qstash, activity_logs>>]_vars

\* A hard todo created with a loan has just been completed: 60 + 40 + 40 gold.
C7_Witness ==
    \E t \in DOMAIN todos :
        /\ lastOp = <<"complete_todo", t, None>>
        /\ todos[t].status = "completed"
        /\ todos[t].completed_at = now
        /\ todos[t].upfront_gold_given = 40
        /\ stats.gold = 140
        /\ stats.xp = 80

\* C8: delete claws back exactly upfrontGoldGiven (floored at 0) only from an
\* active or overdue todo with a loan; deleting a completed todo, or one
\* without a loan, leaves the gold unchanged.
C8_DeleteClawback ==
    [][\A t \in TodoIds :
         (Ran("delete_todo", t, None) /\ Found(t)) =>
           stats'.gold =
              IF todos[t].status \in {"active", "overdue"} /\ todos[t].upfront_gold_given > 0
              THEN Max(0, stats.gold - todos[t].upfront_gold_given)
              ELSE stats.gold]_vars

\* C9: renew is accepted only from overdue, with a future deadline and gold of
\* at least 10% of potentialReward; it deducts exactly that fee, stores the
\* handle scheduling returned, sets status active and the new deadline and
\* leaves upfrontGoldGiven alone; the next callback on the renewed todo again
\* deducts 2 * upfrontGoldGiven.
C9_Renew ==
    [][\A t \in TodoIds :
         /\ \A d \in Deadlines :
              Ran("renew_todo", t, d) =>
                IF /\ Found(t)
                   /\ todos[t].status = "overdue"
                   /\ d # None /\ d > now
                   /\ 10 * stats.gold >= todos[t].potential_reward
                THEN LET todo == todos[t] IN
                     /\ 10 * (stats.gold - stats'.gold) = todo.potential_reward
                     /\ stats' = [stats EXCEPT !.gold = stats'.gold]
                     /\ ScheduledIn(qstash', qstash, todos'[t].qstash_message_id, t, d)
                     /\ todos' = [todos EXCEPT ![t] =
                                     [todo EXCEPT !.status = "active",
                                                  !.deadline = d,
                                                  !.qstash_message_id =
                                                      todos'[t].qstash_message_id]]
                     /\ activity_logs' = activity_logs
                ELSE UNCHANGED <<todos, stats, qstash, activity_logs>>
         /\ (/\ Ran("check_todo_validity", t, None)
             /\ Found(t) /\ todos[t].status = "active"
             /\ \E i \in DOMAIN activity_logs :
                    activity_logs[i].type = "todo_overdue" /\ activity_logs[i].todo = t)
            => stats'.gold = Max(0, stats.gold - 2 * todos[t].upfront_gold_given)]_vars

\* A renewed todo that kept its loan has just been penalized a second time.
C9_Witness ==
    \E t \in DOMAIN todos :
        /\ lastOp = <<"check_todo_validity", t, None>>
        /\ todos[t].status = "overdue"
        /\ todos[t].upfront_gold_given > 0
        /\ \E i, j \in DOMAIN activity_logs :
              /\ i < j
              /\ activity_logs[i] = LogEntry("todo_overdue", t, 0 - 2 * todos[t].upfront_gold_given)
              /\ activity_logs[j] = activity_logs[i]

\* C10: an edit of an active todo's deadline is one of exactly four
\* cases: remove, add (loan granted), change (rescheduled), and an unchanged
\* deadline that leaves todo, handle and gold as they were.
C10_FourCases ==
    [][\A t \in TodoIds, d \in Deadlines :
         (Ran("update_todo", t, d) /\ Found(t) /\ todos[t].status = "active") =>
           LET todo == todos[t]
               old == todo.deadline
           IN IF old # None /\ d = None
              THEN /\ stats'.gold = Max(0, stats.gold - todo.upfront_gold_given)
                   /\ todos'[t].upfront_gold_given = 0
                   /\ todos'[t].qstash_message_id = None
                   /\ CancelledIn(qstash', todo.qstash_message_id)
              ELSE IF old = None /\ d # None
              THEN /\ stats'.gold = stats.gold + todo.potential_reward
                   /\ todos'[t].upfront_gold_given = todo.potential_reward
                   /\ ScheduledIn(qstash', qstash, todos'[t].qstash_message_id, t, d)
              ELSE IF old # None /\ d # None /\ d # old
              THEN /\ CancelledIn(qstash', todo.qstash_message_id)
                   /\ ScheduledIn(qstash', qstash, todos'[t].qstash_message_id, t, d)
                   /\ stats'.gold = stats.gold
                   /\ todos'[t].upfront_gold_given = todo.upfront_gold_given
              ELSE /\ todos' = todos
                   /\ stats' = stats
                   /\ qstash' = qstash]_vars

\* C2: however the deliveries of a deadline callback interleave, the 2 x
\* upfrontGoldGiven penalty is written to the owner's gold at most once per
\* active period of the todo.
C2_PenaltyAtMostOnce == \A t \in TodoIds : penalized[t] <= 1

\* C5: a todo's status only moves active -> completed, active -> overdue or
\* overdue -> active, and a completed todo stays completed for as long as it
\* exists.
C5_StatusTransitions ==
    [][\A t \in DOMAIN todos :
         t \in DOMAIN todos' =>
           \/ todos'[t].status = todos[t].status
           \/ <<todos[t].status, todos'[t].status>> \in
                 {<<"active", "completed">>, <<"active", "overdue">>, <<"overdue", "active">>}]_vars

\* C11: in every reachable state a todo's callback handle is non-null if and
\* only if the todo is active and has a future deadline.  A deadline that has
\* just been reached is not held against the claim: a stored handle is only
\* required to belong to an active todo with a deadline, and an active todo
\* with a future deadline is required to carry a handle.
C11_HandleIffActiveFuture ==
    \A t \in DOMAIN todos :
        /\ todos[t].qstash_message_id # None
             => (todos[t].status = "active" /\ todos[t].deadline # None)
        /\ (todos[t].status = "active" /\ IsFuture(todos[t].deadline))
             => todos[t].qstash_message_id # None

\* The rejection a request meets in the state it arrives in, by the checks
\* of its route in their order, "none" when it meets none.
Rejection(op, id, arg) ==
    CASE op \in {"update_todo", "complete_todo"} ->
           IF ~Found(id) THEN "NotFound"
           ELSE IF todos[id].status # "active" THEN "InvalidState"
           ELSE "none"
      [] op = "delete_todo" -> IF ~Found(id) THEN "NotFound" ELSE "none"
      [] op = "renew_todo" ->
           IF ~Found(id) THEN "NotFound"
           ELSE IF todos[id].status # "overdue" THEN "InvalidState"
           ELSE IF arg = None \/ arg <= now THEN "InvalidState"
           ELSE IF stats.gold < RenewCost(todos[id]) THEN "InsufficientFunds"
           ELSE "none"
      [] op = "toggle_habit_status" ->
           IF id \notin DOMAIN tasks THEN "NotFound"
           ELSE IF tasks[id].type # "habit" THEN "InvalidKind"
           ELSE "none"
      [] op = "toggle_daily" ->
           IF id \notin DOMAIN tasks THEN "NotFound"
           ELSE IF tasks[id].type # "daily" THEN "InvalidKind"
           ELSE "none"
      [] op = "trigger_habit" -> IF id \notin DOMAIN habits THEN "NotFound" ELSE "none"
      [] OTHER -> "none"

\* C12: rejections commit nothing.  Whenever a todo, habit-toggle,
\* daily-toggle or trigger request is rejected with NotFound, InvalidState,
\* InvalidKind or InsufficientFunds, the character (stats), every todo, task
\* and habit record, the scheduled callbacks and the audit log are the same
\* after the request as before it.
C12_RejectionsCommitNothing ==
    [][(/\ requests' = requests + 1
        /\ Rejection(lastOp'[1], lastOp'[2], lastOp'[3]) # "none")
       => UNCHANGED <<stats, todos, tasks, habits, qstash, activity_logs>>]_vars

\* A habit-toggle has just been rejected with InvalidKind: the task it
\* names is a daily.
C12_Witness ==
    /\ lastOp[1] = "toggle_habit_status"
    /\ lastOp[2] \in DOMAIN tasks
    /\ tasks[lastOp[2]].type = "daily"
    /\ requests >= 2

\* C13: a failed registration does not fail create or renew: the sentinel is
\* stored, the loan is granted (create) or the fee taken and the todo active
\* again (renew); cancelling an empty or sentinel handle touches nothing, and
\* whatever the outcome of the cancel call, complete, delete and the removal
\* of a deadline go through.
C13_SchedulerFailureTolerated ==
    [][/\ \A d \in Deadlines :
            (Ran("create_todo", nextTodo, d) /\ d # None /\ d > now /\ qstash' = qstash)
            => /\ nextTodo \in DOMAIN todos'
               /\ todos'[nextTodo].qstash_message_id = ErrorHandle
               /\ todos'[nextTodo].upfront_gold_given = todos'[nextTodo].potential_reward
               /\ stats'.gold = stats.gold + todos'[nextTodo].potential_reward
       /\ \A t \in TodoIds, d \in Deadlines :
            (/\ Ran("renew_todo", t, d) /\ Found(t) /\ todos[t].status = "overdue"
             /\ d # None /\ d > now /\ 10 * stats.gold >= todos[t].potential_reward
             /\ qstash' = qstash)
            => /\ todos'[t].qstash_message_id = ErrorHandle
               /\ todos'[t].status = "active"
               /\ todos'[t].deadline = d
               /\ 10 * (stats.gold - stats'.gold) = todos[t].potential_reward
       /\ \A t \in TodoIds :
            LET h == IF Found(t) THEN todos[t].qstash_message_id ELSE None
                inert == h = None \/ h = ErrorHandle
            IN /\ (Ran("complete_todo", t, None) /\ Found(t) /\ todos[t].status = "active")
                  => /\ todos'[t].status = "completed"
                     /\ inert => qstash' = qstash
               /\ (Ran("delete_todo", t, None) /\ Found(t))
                  => /\ t \notin DOMAIN todos'
                     /\ inert => qstash' = qstash
               /\ (/\ Ran("update_todo", t, None) /\ Found(t)
                   /\ todos[t].status = "active" /\ todos[t].deadline # None)
                  => /\ todos'[t].deadline = None
                     /\ todos'[t].qstash_message_id = None
                     /\ inert => qstash' = qstash]_vars

\* A todo whose registration failed has just been completed: it had carried
\* the sentinel and the loan, and nothing is pending at the scheduler.
C13_Witness ==
    \E t \in DOMAIN todos :
        /\ lastOp = <<"complete_todo", t, None>>
        /\ todos[t].status = "completed"
        /\ todos[t].upfront_gold_given = 40
        /\ qstash = {}
        /\ requests = 2
        /\ now = 1

\* C19: whatever the level, experience and gain, the result of
\* calculate_new_level_and_xp has a level of at least 1 and an experience of
\* at least 0.
C19_LevelAndXpFloors ==
    applied.caller # "none" => (applied.result[1] >= 1 /\ applied.result[2] >= 0)

\* A call that lost more experience than the level held and came out one
\* level lower, inside the level.
C19_Witness ==
    /\ applied.caller # "none"
    /\ applied.level >= 2
    /\ applied.xp + applied.xp_gain < 0
    /\ applied.result[1] = applied.level - 1
    /\ applied.result[2] > 0

\* C20: every call returns the three components (new level, new experience,
\* requirement of the new level), and every caller binds them without error.
C20_ThreeComponents ==
    applied.caller # "none" => (Len(applied.result) = 3 /\ ~applied.raised)

\* The requirement of a level as the leveling rule states it: the threshold
\* at index level - 1, the last configured threshold beyond the range.
Requirement(level) ==
    IF level <= Len(LEVEL_XP_THRESHOLDS)
    THEN LEVEL_XP_THRESHOLDS[level]
    ELSE LEVEL_XP_THRESHOLDS[Len(LEVEL_XP_THRESHOLDS)]

\* The requirements of the levels from..(to - 1), added up.
RECURSIVE Consumed(_, _)
Consumed(from, to) ==
    IF from >= to THEN 0 ELSE Requirement(from) + Consumed(from + 1, to)

\* C21: level-up.  When experience + delta >= 0 the result is the level
\* reached by subtracting the requirement of each level passed, with
\* 0 <= new experience < requirement(new level) and the requirement of the
\* new level as third component; nothing is lost: the new experience plus
\* the requirements consumed is experience + delta.  Level 1, experience 0,
\* delta +250 gives level 2, experience 150, requirement 300.
C21_LevelUp ==
    (applied.caller # "none" /\ applied.xp + applied.xp_gain >= 0) =>
        /\ Len(applied.result) = 3
        /\ applied.result[1] >= applied.level
        /\ 0 <= applied.result[2]
        /\ applied.result[2] < Requirement(applied.result[1])
        /\ applied.result[3] = Requirement(applied.result[1])
        /\ applied.result[2] + Consumed(applied.level, applied.result[1])
             = applied.xp + applied.xp_gain
        /\ (applied.level = 1 /\ applied.xp = 0 /\ applied.xp_gain = 250
              => applied.result = <<2, 150, 300>>)

\* The call of the example has been made, with its result.
C21_Witness ==
    /\ applied.caller = "calculate_new_level_and_xp"
    /\ applied.level = 1 /\ applied.xp = 0 /\ applied.xp_gain = 250
    /\ applied.result = <<2, 150, 300>>

\* What is left of total when the levels l..(level - 1) are given back.
GivenBack(total, l, level) == total + Consumed(l, level)

\* C22: de-leveling.  When experience + delta < 0 the level goes down, the
\* requirement of each level moved down to being added, until the total is
\* no longer negative: the result is the highest level below the current
\* one at which the total is >= 0, with that total as experience.  If the
\* total is still negative at level 1 the result is level 1, experience 0.
C22_DeLevel ==
    (applied.caller # "none" /\ applied.xp + applied.xp_gain < 0) =>
        LET total == applied.xp + applied.xp_gain
            level == applied.level
            new_level == applied.result[1]
            new_xp == applied.result[2]
            stops == {l \in 1..(level - 1) : GivenBack(total, l, level) >= 0}
        IN IF stops = {}
           THEN new_level = 1 /\ new_xp = 0
           ELSE /\ new_level \in stops
                /\ \A l \in stops : l <= new_level
                /\ new_xp = GivenBack(total, new_level, level)

\* Two levels have been lost without reaching the clamp.
C22_Witness ==
    /\ applied.caller # "none"
    /\ applied.xp + applied.xp_gain < 0
    /\ applied.result[1] = applied.level - 2
    /\ applied.result[2] > 0

\* The call ended at the clamp of level 1: the total was still negative
\* with no level left to give back.
Clamped(call) ==
    /\ call.xp + call.xp_gain < 0
    /\ GivenBack(call.xp + call.xp_gain, 1, call.level) < 0

\* C23: round trip.  From a level >= 1 with 0 <= experience <
\* requirement(level), applying a delta and then the opposite delta gives
\* back the level and the experience, unless one of the two calls ended at
\* the clamp of level 1.
C23_RoundTrip ==
    [][(/\ applied'.caller = "reverse"
        /\ applied.level >= 1
        /\ 0 <= applied.xp /\ applied.xp < Requirement(applied.level)
        /\ ~Clamped(applied) /\ ~Clamped(applied'))
       => (applied'.result[1] = applied.level /\ applied'.result[2] = applied.xp)]_vars

\* A loss that took a level has been given back: the second call gained the
\* level again.
C23_Witness ==
    /\ applied.caller = "reverse"
    /\ applied.xp_gain > 0
    /\ applied.result[1] > applied.level
    /\ applied.result[2] > 0

\* ------------------------------------------------------ the trigger route
\* This step is a trigger request for habit h, which exists, with the given
\* outcome.
Triggered(h, outcome) ==
    /\ requests' = requests + 1
    /\ lastOp' = <<"trigger_habit", h, outcome>>
    /\ h \in DOMAIN habits

\* The multiplier of the outcome table: easy 1, hard 2 (medium, 1.5, is not
\* among the habits of the specification).
TableMultiplier(difficulty) == IF difficulty = "hard" THEN 2 ELSE 1

\* The labels a habit holds, in order, are all different.
NoDuplicates(labels) ==
    \A i, j \in DOMAIN labels : i # j => labels[i] # labels[j]

\* labels is the beginning of more.
Prefix(labels, more) ==
    /\ Len(labels) <= Len(more)
    /\ \A i \in DOMAIN labels : more[i] = labels[i]

\* C24: over any sequence of triggers no label of a habit is held twice and
\* none is removed; a trigger adds the label of N, N in {7, 21, 30, 66, 100,
\* 365}, exactly when it is a success that brings the streak to N and the
\* habit does not hold that label, and only then is more gold granted than
\* the plain reward of a success.
C24_MilestonesOnce ==
    /\ [](\A h \in DOMAIN habits : NoDuplicates(habits[h].milestones))
    /\ [][\A h \in DOMAIN habits :
            /\ h \in DOMAIN habits'
            /\ Prefix(habits[h].milestones, habits'[h].milestones)
            /\ \A outcome \in {"success", "failure"} :
                 Triggered(h, outcome) =>
                   LET reached == habits[h].current_streak + 1
                       first == /\ outcome = "success"
                                /\ reached \in {7, 21, 30, 66, 100, 365}
                                /\ \A i \in DOMAIN habits[h].milestones :
                                       habits[h].milestones[i] # reached
                       plain == IF outcome = "success"
                                THEN 5 * TableMultiplier(habits[h].difficulty) ELSE 0
                   IN /\ habits'[h].milestones =
                           IF first THEN Append(habits[h].milestones, reached)
                           ELSE habits[h].milestones
                      /\ first <=> stats'.gold > stats.gold + plain
                      /\ ~first => stats'.gold = stats.gold + plain]_vars

\* The habit that started at a streak of 6 has unlocked the 7-day label,
\* failed once and come back to a streak of 7 with seven successes: it holds
\* the label once.
C24_Witness ==
    /\ Len(activity_logs) = 9
    /\ \E k \in DOMAIN activity_logs : activity_logs[k].xp_change < 0
    /\ habits[1].current_streak = 7
    /\ habits[1].milestones = <<7>>

\* C25: the outcome table of the trigger.  A success, for either polarity,
\* adds 1 to the streak, grants gold 5 x multiplier and experience
\* 10 x multiplier (plus the bonus of a milestone unlocked by it); a failure
\* sets the streak to 0, grants no gold and takes 5 experience; the
\* experience goes through calculate_new_level_and_xp, and every trigger
\* writes exactly one audit entry.
C25_OutcomeTable ==
    [][\A h \in DOMAIN habits : \A outcome \in {"success", "failure"} :
         Triggered(h, outcome) =>
           LET mult == TableMultiplier(habits[h].difficulty)
               unlocked == Len(habits'[h].milestones) > Len(habits[h].milestones)
               reached == habits[h].current_streak + 1
               gold_gain == IF outcome = "failure" THEN 0
                            ELSE 5 * mult + (IF unlocked THEN reached * 2 * mult ELSE 0)
               xp_gain == IF outcome = "failure" THEN -5
                          ELSE 10 * mult + (IF unlocked THEN reached * 5 * mult ELSE 0)
               leveled == calculate_new_level_and_xp(stats.level, stats.xp, xp_gain)
           IN /\ habits'[h].current_streak = IF outcome = "success" THEN reached ELSE 0
              /\ stats'.gold = stats.gold + gold_gain
              /\ stats'.level = leveled[1]
              /\ stats'.xp = leveled[2]
              /\ Len(activity_logs') = Len(activity_logs) + 1]_vars

\* C26: in every state reached by triggers, the streak of a habit is >= 0
\* and its best streak is >= its streak.
C26_StreakBounds ==
    \A h \in DOMAIN habits :
        /\ habits[h].current_streak >= 0
        /\ habits[h].best_streak >= habits[h].current_streak

\* A success has raised the best streak to 7 and a failure has then reset
\* the streak.
C26_Witness ==
    /\ lastOp = <<"trigger_habit", 1, "failure">>
    /\ habits[1].best_streak = 7
    /\ habits[1].current_streak = 0

\* ------------------------------------------------------ the toggle routes
\* This step is a request of route op for task h, which exists.
Toggled(op, h) ==
    /\ requests' = requests + 1
    /\ lastOp' = <<op, h, None>>
    /\ h \in DOMAIN tasks

\* DoneToday: the last completion is on the day of instant t.
DoneToday(task, t) ==
    /\ task.last_completed_date # None
    /\ to_ist_date(task.last_completed_date) = to_ist_date(t)

\* The last completion is on the day before the day of instant t.
DoneYesterday(task, t) ==
    /\ task.last_completed_date # None
    /\ to_ist_date(task.last_completed_date) = to_ist_date(t) - 1

\* The multiplier of the habit toggle: easy 1, medium 2, hard 4.
ToggleMultiplier(difficulty) ==
    IF difficulty = "hard" THEN 4 ELSE IF difficulty = "medium" THEN 2 ELSE 1

\* Level and experience after the leveling calculator has applied delta.
Leveled(character, delta) ==
    LET result == calculate_new_level_and_xp(character.level, character.xp, delta)
    IN <<result[1], result[2]>>

\* The streak an undo leaves.
UndoneStreak(streak) == IF streak > 1 THEN streak - 1 ELSE 0

\* C27: mark done.  A habit-toggle of a habit that is not DoneToday sets the
\* streak to streak + 1 if the last completion was yesterday and to 1
\* otherwise, adds gold 1 x multiplier, applies experience 5 x multiplier
\* through the leveling calculator, sets lastCompletedDate to now and
\* completedToday to true and writes one audit entry.
C27_MarkDone ==
    [][\A h \in DOMAIN tasks :
         (/\ Toggled("toggle_habit_status", h)
          /\ tasks[h].type = "habit"
          /\ ~DoneToday(tasks[h], now)) =>
           LET mult == ToggleMultiplier(tasks[h].difficulty) IN
           /\ tasks'[h].streak = IF DoneYesterday(tasks[h], now)
                                 THEN tasks[h].streak + 1 ELSE 1
           /\ stats'.gold = stats.gold + mult
           /\ <<stats'.level, stats'.xp>> = Leveled(stats, 5 * mult)
           /\ tasks'[h].last_completed_date = now
           /\ tasks'[h].completed_today
           /\ Len(activity_logs') = Len(activity_logs) + 1]_vars

\* C28: undo.  A habit-toggle of a habit that is DoneToday takes back gold
\* 1 x multiplier and experience 5 x multiplier (through the leveling
\* calculator), sets completedToday to false, and sets the streak to
\* streak - 1 with lastCompletedDate on yesterday if the streak was > 1, to
\* 0 with no lastCompletedDate otherwise; the habit is then not DoneToday.
C28_Undo ==
    [][\A h \in DOMAIN tasks :
         (/\ Toggled("toggle_habit_status", h)
          /\ tasks[h].type = "habit"
          /\ DoneToday(tasks[h], now)) =>
           LET mult == ToggleMultiplier(tasks[h].difficulty) IN
           /\ stats'.gold = stats.gold - mult
           /\ <<stats'.level, stats'.xp>> = Leveled(stats, -(5 * mult))
           /\ ~tasks'[h].completed_today
           /\ tasks'[h].streak = UndoneStreak(tasks[h].streak)
           /\ IF tasks[h].streak > 1
              THEN DoneYesterday(tasks'[h], now)
              ELSE tasks'[h].last_completed_date = None
           /\ ~DoneToday(tasks'[h], now)]_vars

\* C29: mark then undo on the same day.  After a mark the habit is
\* DoneToday, so the next toggle of the day is its undo, and what that undo
\* takes back from the marked state is what the mark added: gold,
\* experience and level are the ones before the mark, and so is the streak
\* when it was 0 or 1 before the mark; when it was > 1 the streak after the
\* undo is one less than the streak after the mark.
C29_MarkThenUndo ==
    [][\A h \in DOMAIN tasks :
         (/\ Toggled("toggle_habit_status", h)
          /\ tasks[h].type = "habit"
          /\ ~DoneToday(tasks[h], now)) =>
           LET mult == ToggleMultiplier(tasks[h].difficulty) IN
           /\ DoneToday(tasks'[h], now)
           /\ stats'.gold - mult = stats.gold
           /\ Leveled(stats', -(5 * mult)) = <<stats.level, stats.xp>>
           /\ tasks[h].streak \in {0, 1} => UndoneStreak(tasks'[h].streak) = tasks[h].streak
           /\ tasks[h].streak > 1 => UndoneStreak(tasks'[h].streak) = tasks'[h].streak - 1]_vars

\* C30: the daily toggle.  Completing a daily grants the fixed gold and
\* experience and adds 1 to the streak; toggling it back sets the streak to
\* max(0, streak - 1) and takes the same gold and experience back, so that
\* gold, experience, level and streak are those before the first toggle.
C30_DailyRoundTrip ==
    [][\A h \in DOMAIN tasks :
         (Toggled("toggle_daily", h) /\ tasks[h].type = "daily") =>
           IF ~tasks[h].completed
           THEN /\ tasks'[h].completed
                /\ tasks'[h].streak = tasks[h].streak + 1
                /\ stats'.gold = stats.gold + DAILY_REWARD_GOLD
                /\ <<stats'.level, stats'.xp>> = Leveled(stats, DAILY_XP_VALUE)
                /\ Max(0, tasks'[h].streak - 1) = tasks[h].streak
                /\ Leveled(stats', -DAILY_XP_VALUE) = <<stats.level, stats.xp>>
           ELSE /\ ~tasks'[h].completed
                /\ tasks'[h].streak = Max(0, tasks[h].streak - 1)
                /\ stats'.gold = stats.gold - DAILY_REWARD_GOLD
                /\ <<stats'.level, stats'.xp>> = Leveled(stats, -DAILY_XP_VALUE)]_vars

\* C31: gold never goes below 0.  Whatever the requests, a deduction that
\* would take the balance below 0 leaves it at 0.
C31_GoldNeverNegative ==
    stats.gold >= 0

\* C32: every economic event is audited.  A step that changes the
\* character's gold, experience or level appends exactly one audit entry,
\* and no step changes or removes an entry that is already there.
C32_EveryEventAudited ==
    [][/\ Prefix(activity_logs, activity_logs')
       /\ (stats'.gold # stats.gold \/ stats'.xp # stats.xp \/ stats'.level # stats.level)
            => Len(activity_logs') = Len(activity_logs) + 1]_vars

\* Handler p leaves position pc in this step.
Leaves(p, pc) == procs[p].pc = pc /\ procs'[p].pc # pc

\* C33: no lost updates on a character.  When operations of the same user
\* interleave, each write of an operation to the character applies the
\* delta of that operation to the gold, experience and level stored at the
\* time of the write, so that the final values reflect the deltas of all of
\* them, as if they had run one after the other.
C33_NoLostUpdates ==
    [][\A p \in ProcIds :
         /\ (Leaves(p, "co_write_user") /\ Found(procs[p].todo_id)) =>
               /\ stats'.gold = stats.gold + todos[procs[p].todo_id].potential_reward
               /\ <<stats'.level, stats'.xp>> = Leveled(stats, XpGain(todos[procs[p].todo_id]))
         /\ Leaves(p, "cv_write_gold") =>
               stats'.gold = Max(0, stats.gold - procs[p].penalty)
         /\ (Leaves(p, "re_write_gold") /\ Found(procs[p].todo_id)) =>
               stats'.gold = stats.gold - RenewCost(todos[procs[p].todo_id])]_vars

\* C34: under interleaved trigger requests the stored milestone labels of a
\* habit only grow: no step removes a label that the habit holds.
C34_MilestonesOnlyGrow ==
    [][\A h \in DOMAIN habits :
          existing_labels(habits[h]) \subseteq existing_labels(habits'[h])]_vars

\* The sweep has logged a penalty for task i on the day of instant t.
PenalizedOn(i, t) ==
    \E k \in DOMAIN activity_logs :
        /\ activity_logs[k].type = "penalty"
        /\ activity_logs[k].message[1] = i
        /\ to_ist_date(activity_logs[k].timestamp) = to_ist_date(t)

\* The habit's stored last_completed_date falls on the day of instant t.
CompletedOn(task, t) ==
    /\ task.type = "habit"
    /\ task.last_completed_date # None
    /\ to_ist_date(task.last_completed_date) = to_ist_date(t)

TasksOf(ts, u) == [i \in {j \in DOMAIN ts : ts[j].user_id = u} |-> ts[i]]

RECURSIVE LogsOf(_, _)
LogsOf(logs, u) ==
    IF logs = <<>> THEN <<>>
    ELSE (IF Head(logs).user_id = u THEN <<Head(logs)>> ELSE <<>>) \o LogsOf(Tail(logs), u)

\* The sweep has processed u in this step: the watermark of u has moved.
Processed(u) ==
    /\ lastRun'[u] = "processed"
    /\ users'[u].last_cron_check # users[u].last_cron_check

\* The audit entries written in this step for task i of user u.
NewEntries(u, i) ==
    {k \in (Len(activity_logs) + 1)..Len(activity_logs') :
        activity_logs'[k].user_id = u /\ activity_logs'[k].message[1] = i}

\* The claim's rule: streak above 0, and neither done yesterday or today nor,
\* without a date, flagged done.
Penalizable(habit) ==
    LET today == now \div 2
        done == IF habit.last_completed_date = None THEN habit.completed_today
                ELSE habit.last_completed_date \div 2 \in {today - 1, today}
    IN habit.streak > 0 /\ ~done

PenaltyOf(habit) ==
    IF habit.difficulty = "easy" THEN 5 ELSE IF habit.difficulty = "hard" THEN 20 ELSE 10

RECURSIVE SumPenalties(_, _)
SumPenalties(ts, ids) ==
    IF ids = {} THEN 0
    ELSE LET i == CHOOSE j \in ids : TRUE
         IN PenaltyOf(ts[i]) + SumPenalties(ts, ids \ {i})

\* C14: once the sweep has run for a user on a day, processing or skipping
\* the user, a further run on the same day with no request of the user in
\* between changes nothing of the user: not the user document (health,
\* watermark), not a task (streak, flags), not the audit log.
C14_SweepIdempotent ==
    [][\A u \in UserIds :
          (/\ lastRun[u] \in {"processed", "skipped"}
           /\ lastRun'[u] # "none"
           /\ now' \div 2 = now \div 2)
          => /\ users'[u] = users[u]
             /\ TasksOf(tasks', u) = TasksOf(tasks, u)
             /\ LogsOf(activity_logs', u) = LogsOf(activity_logs, u)]_vars

\* A user swept early on day 3, with a penalty, has been skipped by a run
\* later that day.
C14_Witness ==
    \E u \in UserIds :
        /\ lastRun[u] = "skipped"
        /\ now = SweepStart + 1
        /\ users[u].last_cron_check = SweepStart
        /\ LogsOf(activity_logs, u) # <<>>

\* C15: when the sweep processes a user, each habit of the user with a
\* streak above 0 that counts as missed has its streak set to 0 and gets one
\* audit entry carrying the penalty of its difficulty; every other habit
\* keeps its streak and gets no entry.
C15_MissedHabitRule ==
    [][\A u \in UserIds : Processed(u) =>
          \A i \in DOMAIN tasks :
              (tasks[i].user_id = u /\ tasks[i].type = "habit") =>
                  IF Penalizable(tasks[i])
                  THEN /\ tasks'[i].streak = 0
                       /\ Cardinality(NewEntries(u, i)) = 1
                       /\ \A k \in NewEntries(u, i) :
                              /\ activity_logs'[k].type = "penalty"
                              /\ activity_logs'[k].message[2] = PenaltyOf(tasks[i])
                  ELSE /\ tasks'[i].streak = tasks[i].streak
                       /\ NewEntries(u, i) = {}]_vars

\* A processed user with a penalized habit (no date, not flagged, medium:
\* streak 0 and an entry of 10) next to a habit done yesterday that kept its
\* streak.
C15_Witness ==
    \E u \in UserIds : \E i, j \in DOMAIN tasks :
        /\ lastRun[u] = "processed"
        /\ tasks[i].user_id = u /\ tasks[j].user_id = u
        /\ tasks[i].difficulty = "medium" /\ tasks[i].streak = 0
        /\ \E k \in DOMAIN activity_logs : activity_logs[k].message = <<i, 10>>
        /\ tasks[j].type = "habit"
        /\ tasks[j].last_completed_date = SweepStart - DayLength
        /\ tasks[j].streak = 2

\* C16: health is within 0..100 in every state, and a sweep that processes a
\* user leaves the health at max(0, health - the sum of the penalties of the
\* habits it reset).
C16_HealthInRange ==
    /\ [](\A u \in UserIds : users[u].hp >= 0 /\ users[u].hp <= 100)
    /\ [][\A u \in UserIds : Processed(u) =>
            LET reset == {i \in DOMAIN tasks : /\ tasks[i].user_id = u
                                               /\ tasks[i].type = "habit"
                                               /\ tasks[i].streak > 0
                                               /\ tasks'[i].streak = 0}
                sum == SumPenalties(tasks, reset)
            IN users'[u].hp = (IF users[u].hp >= sum THEN users[u].hp - sum ELSE 0)]_vars

\* A user at health 15 lost two habits (20 and 10) in one sweep: health 0,
\* then 20 after a restoring purchase.
C16_Witness ==
    \E u \in UserIds :
        /\ users[u].hp = 20
        /\ users[u].purchases = 1
        /\ Len(LogsOf(activity_logs, u)) = 2

\* C17: in a run in which processing one user raises, every other user is
\* left exactly as by a run without the failure: user document, tasks, audit
\* entries and outcome.  (Nothing the sweep does for one user reads or
\* writes what belongs to another, so this is also the run without the
\* failing user.)
C17_FailureIsolation ==
    [][errors' = errors + 1 =>
          LET db == [tasks |-> tasks, users |-> users, logs |-> activity_logs, runs |-> lastRun]
              clean == SweepFrom(db, 1, [u \in UserIds |-> MaxWrites], now)
          IN \A v \in UserIds :
                \/ /\ lastRun'[v] = "failed"
                   /\ \A w \in UserIds \ {v} : lastRun'[w] # "failed"
                \/ /\ lastRun'[v] = clean.runs[v]
                   /\ lastRun'[v] \in {"processed", "skipped"}
                   /\ users'[v] = clean.users[v]
                   /\ TasksOf(tasks', v) = TasksOf(clean.tasks, v)
                   /\ LogsOf(activity_logs', v) = LogsOf(clean.logs, v)]_vars

\* The first user failed and the second, who comes after it in the run, was
\* processed with a penalty.
C17_Witness ==
    /\ lastRun[1] = "failed"
    /\ lastRun[2] = "processed"
    /\ users[2].last_cron_check = now
    /\ LogsOf(activity_logs, 2) # <<>>

\* C18: when the sweep processes a user, every daily of the user is left
\* with completed false and with the streak it had.
C18_DailyReset ==
    [][\A u \in UserIds : Processed(u) =>
          \A i \in DOMAIN tasks :
              (tasks[i].user_id = u /\ tasks[i].type = "daily") =>
                  /\ ~tasks'[i].completed
                  /\ tasks'[i].streak = tasks[i].streak]_vars

\* A processed user's daily that had been completed with streak 2 is open
\* again and still has streak 2.
C18_Witness ==
    \E u \in UserIds : \E i \in DOMAIN tasks :
        /\ lastRun[u] = "processed"
        /\ tasks[i].user_id = u
        /\ tasks[i].type = "daily"
        /\ tasks[i].streak = 2
        /\ ~tasks[i].completed
\* C36: every streak reset of the sweep is paid for.  Once the sweep has
\* processed a user, the penalties of all the streaks the sweeps have reset
\* for the user equal the health the sweeps have taken from the user, unless
\* the health has reached the floor of 0; this also after a run that failed
\* part-way and the run that retried it.
C36_ResetsArePaid ==
    \A u \in UserIds :
        lastRun[u] = "processed" => ledger[u].unpaid = 0 \/ ledger[u].floored

\* C37: when the sweep processes a user, every habit of the user is left
\* with completed_today true exactly if its last_completed_date falls on
\* the day of the sweep in the reference time zone, whatever the flag was.
C37_FlagRecomputed ==
    [][\A u \in UserIds : Processed(u) =>
          \A i \in DOMAIN tasks :
              (tasks[i].user_id = u /\ tasks[i].type = "habit") =>
                  (tasks'[i].completed_today
                     <=> /\ tasks[i].last_completed_date # None
                         /\ tasks[i].last_completed_date \div DayLength = now \div DayLength)]_vars

\* A processed user with a habit done today whose stale flag has been set
\* (streak 1) and a habit last done two days ago whose stale flag has been
\* cleared.
C37_Witness ==
    \E u \in UserIds : \E i, j \in DOMAIN tasks :
        /\ lastRun[u] = "processed"
        /\ tasks[i].user_id = u /\ tasks[j].user_id = u
        /\ tasks[i].type = "habit" /\ tasks[i].streak = 1
        /\ tasks[i].last_completed_date = SweepStart
        /\ tasks[i].completed_today
        /\ tasks[j].type = "habit" /\ tasks[j].difficulty = "hard"
        /\ tasks[j].last_completed_date = SweepStart - 2 * DayLength
        /\ tasks[j].streak = 0
        /\ ~tasks[j].completed_today

\* The day of user u's watermark, a missing watermark counting as the
\* earliest day.
WatermarkDay(u) ==
    IF users[u].last_cron_check = None THEN MinDate
    ELSE users[u].last_cron_check \div DayLength

\* C38: with the sweep fired again and again, every user whose watermark
\* lies on a day before today eventually has the watermark on the current
\* day (the runs that raise for the user are finitely many), and no step
\* moves a user's watermark backwards.
C38_WatermarkAdvances ==
    /\ \A u \in UserIds :
          (WatermarkDay(u) < now \div DayLength) ~> (WatermarkDay(u) = now \div DayLength)
    /\ [][\A u \in UserIds :
            /\ users'[u].last_cron_check # None
                  => users[u].last_cron_check = None
                     \/ users'[u].last_cron_check >= users[u].last_cron_check
            /\ users'[u].last_cron_check = None => users[u].last_cron_check = None]_vars

\* Late on day 3 both users have the watermark on day 3: the one without a
\* watermark after a run that failed for it and the run that retried it,
\* the one last swept on day 2 from the first of the two runs.
C38_Witness ==
    /\ errors = 1
    /\ now = SweepStart + 1
    /\ users[1].last_cron_check = SweepStart + 1
    /\ users[2].last_cron_check = SweepStart
    /\ lastRun[1] = "processed"

\* C39: a run of the sweep changes of a user only health and watermark, of
\* a habit of db.tasks only streak and completed_today, of a daily only
\* completed; the gold of every user, the stats the routes keep (gold,
\* experience, level), every loan todo and every habit of the trigger route
\* are as before the run.
C39_SweepFrame ==
    [][(\A u \in UserIds : users'[u].purchases = users[u].purchases) =>
          /\ \A u \in UserIds :
                /\ users'[u].gold = users[u].gold
                /\ users'[u] = [users[u] EXCEPT !.hp = users'[u].hp,
                                                !.last_cron_check = users'[u].last_cron_check]
          /\ stats' = stats
          /\ todos' = todos
          /\ habits' = habits
          /\ DOMAIN tasks' = DOMAIN tasks
          /\ \A i \in DOMAIN tasks :
                /\ tasks[i].type = "todo" => tasks'[i] = tasks[i]
                /\ tasks[i].type = "habit" =>
                      tasks'[i] = [tasks[i] EXCEPT !.streak = tasks'[i].streak,
                                                  !.completed_today = tasks'[i].completed_today]
                /\ tasks[i].type = "daily" =>
                      tasks'[i] = [tasks[i] EXCEPT !.completed = tasks'[i].completed]]_vars

\* A processed user whose missed habit has been reset while the user's
\* completed loan todo still is completed with its streak, next to the
\* habit of the trigger route.
C39_Witness ==
    \E u \in UserIds : \E i, j \in DOMAIN tasks :
        /\ lastRun[u] = "processed"
        /\ users[u].last_cron_check = now
        /\ users[u].gold = ItemCost
        /\ tasks[i].user_id = u /\ tasks[j].user_id = u
        /\ tasks[i].type = "habit" /\ tasks[i].streak = 0
        /\ tasks[j].type = "todo" /\ tasks[j].completed /\ tasks[j].streak = 1
        /\ Len(habits) = 1

\* An iteration of the de-level loop lowers the level and keeps it at 1 or
\* above; an iteration of the level-up loop lowers the total and keeps it
\* at 0 or above.
LoopsDescend ==
    /\ (procs[1].pc = "de_level" /\ procs'[1].pc = "de_level")
          => (procs'[1].new_level < procs[1].new_level /\ procs'[1].new_level >= 1)
    /\ (procs[1].pc = "level_up" /\ procs'[1].pc = "level_up")
          => (procs'[1].total_xp < procs[1].total_xp /\ procs'[1].total_xp >= 0)

\* C40: calculate_new_level_and_xp returns for every level >= 1, experience
\* and delta.  The thresholds are all positive; every iteration of the
\* de-level loop lowers the level, which stays at 1 or above, and every
\* iteration of the level-up loop lowers the total, which stays at 0 or
\* above; so each loop makes finitely many iterations and the call returns.
C40_Terminates ==
    /\ [](\A i \in DOMAIN LEVEL_XP_THRESHOLDS : LEVEL_XP_THRESHOLDS[i] > 0)
    /\ <>(procs[1].pc = "returned")
    /\ [][LoopsDescend]_vars

\* A call from level 12 with a loss of 12000 has gone down through several
\* levels and returned what the function returns; so has, elsewhere, a call
\* that went up (see the level reached).
C40_Witness ==
    /\ procs[1].pc = "returned"
    /\ procs[1].current_level = 12
    /\ procs[1].xp_gain = -12000
    /\ procs[1].new_level < 11
    /\ procs[1].result = calculate_new_level_and_xp(procs[1].current_level,
                                                    procs[1].current_xp, procs[1].xp_gain)

====
